---- MODULE Spec2Model ----
(***************************************************************************)
(* Model of medium-notion-translator: the Notion block renderer and the    *)
(* page publisher that batches the rendered blocks                         *)
(* (src/src/medium_notion/notion_client.py), the two-step translation      *)
(* (src/src/medium_notion/translator.py), the article extraction and the  *)
(* life cycle of the browser client (src/src/medium_notion/browser.py),    *)
(* and the translate pipeline (src/src/medium_notion/cli.py).              *)
(*                                                                         *)
(* A Python str is modelled as a sequence of characters.  An ASCII         *)
(* character is the one-character string holding it; a non-ASCII           *)
(* character is the string "U" followed by its code point in hex           *)
(* ("U3002" is the full-width period), and so is the backquote ("U60"),    *)
(* which a TLA+ string cannot hold.  Either way one element of the         *)
(* sequence is one character, so Len is Python's len.                      *)
(***************************************************************************)
EXTENDS Integers, Sequences, FiniteSets, TLC

VARIABLES
    pc,          \* position of the operation under way
    text,        \* _split_text: argument text
    max_length,  \* _split_text: argument max_length
    chunks,      \* _split_text: returned list
    language,    \* _normalize_code_language: argument
    normalized,  \* _normalize_code_language: returned value
    result,      \* TranslationResult handed to the renderer / create_page
    score,       \* create_page: argument score
    blocks,      \* _build_content_blocks: returned list
    children,    \* create_page: local children
    calls,       \* create_page: the Notion API calls issued so far, in order
    response,    \* create_page: local response (what pages.create returned)
    remaining,   \* create_page: local remaining
    i,           \* create_page: loop index of the append loop
    page,        \* create_page: returned NotionPage, or None
    summary_data,        \* _format_structured_summary: argument data
    summary_str,         \* _format_structured_summary: returned str
    article,             \* translate_article: argument article
    translated_content,  \* translate_article: local translated_content
    claude_calls,        \* _call_claude: the prompts' payloads, in call order
    metadata,            \* translate_article: what _extract_metadata returned
    dom,                 \* the page _extract_content reads
    container,           \* extract_js: container, or None
    js_lines,            \* processNode: lines
    seen,                \* processNode: seen
    extracted,           \* _extract_content: returned (content, is_preview)
    fetched,             \* fetch_article: returned MediumArticle, or None
    inline_text,         \* _parse_inline_markdown: argument text
    inline_parts,        \* _parse_inline_markdown: returned list
    _browser,            \* BrowserClient._browser
    _context,            \* BrowserClient._context
    _page,               \* BrowserClient._page
    launched,            \* the number of browsers launched so far
    open_browsers,       \* the browsers launched and not closed
    session_exists,      \* whether the file at session_path exists
    headless,            \* config.headless
    navigations,         \* the page.goto calls made so far, in order
    history,             \* the calls made so far and how each ended, in order
    pending,             \* _translate: the exception the finally clause holds
    index_file           \* the article index file: its entries

vars == <<pc, text, max_length, chunks, language, normalized, result, score,
          blocks, children, calls, response, remaining, i, page,
          summary_data, summary_str, article, translated_content, claude_calls,
          metadata, dom, container, js_lines, seen, extracted, fetched,
          inline_text, inline_parts,
          _browser, _context, _page, launched, open_browsers, session_exists,
          headless, navigations, history, pending, index_file>>

None == "None"

splitVars == <<text, max_length, chunks>>
langVars == <<language, normalized>>
renderVars == <<result, score, blocks>>
createVars == <<children, calls, response, remaining, i, page>>
summaryVars == <<summary_data, summary_str>>
translateVars == <<article, translated_content, claude_calls, metadata>>
extractVars == <<dom, container, js_lines, seen, extracted, fetched>>
inlineVars == <<inline_text, inline_parts>>
clientVars == <<_browser, _context, _page, launched, open_browsers, session_exists,
                headless, navigations, history>>
pipelineVars == <<pending, index_file>>

\* The variables of the operations a specification does not run keep their
\* values of construction.
SplitIdle == text = <<>> /\ max_length = 0 /\ chunks = <<>>
LangIdle == language = <<>> /\ normalized = None
RenderIdle == result = None /\ score = <<>> /\ blocks = <<>>
CreateIdle ==
    /\ children = <<>> /\ calls = <<>> /\ response = None
    /\ remaining = <<>> /\ i = 0 /\ page = None
SummaryIdle == summary_data = None /\ summary_str = <<None>>
TranslateIdle ==
    /\ article = None /\ translated_content = <<None>>
    /\ claude_calls = <<>> /\ metadata = None
ExtractIdle ==
    /\ dom = None /\ container = None /\ js_lines = <<>> /\ seen = {}
    /\ extracted = None /\ fetched = None
InlineIdle == inline_text = <<>> /\ inline_parts = <<>>

\* None in the fields _browser, _context and _page: the objects are numbered
\* from 1.
Unset == 0

ClientIdle ==
    /\ _browser = Unset /\ _context = Unset /\ _page = Unset
    /\ launched = 0 /\ open_browsers = {} /\ session_exists = FALSE
    /\ headless = TRUE /\ navigations = <<>> /\ history = <<>>
PipelineIdle == pending = None /\ index_file = <<>>


-----------------------------------------------------------------------------
(* Python str primitives                                                   *)

\* All sequences over S of length 0..n.
SeqsUpTo(S, n) == UNION {[1..k -> S] : k \in 0..n}

Min(a, b) == IF a < b THEN a ELSE b
Max(a, b) == IF a > b THEN a ELSE b

\* s[a:b] for 0 <= a, 0 <= b (Python clamps both to len(s)).
Slice(s, a, b) == SubSeq(s, a + 1, Min(b, Len(s)))

\* s[a:]
SliceFrom(s, a) == SubSeq(s, a + 1, Len(s))

\* s.startswith(prefix)
StartsWith(s, prefix) ==
    /\ Len(prefix) <= Len(s)
    /\ SubSeq(s, 1, Len(prefix)) = prefix

\* Characters str.strip() removes (str.isspace): the ASCII ones and the
\* ideographic space.
Whitespace == {" ", "\t", "\n", "\r", "U3000"}

\* Index of the first character of s that is not in chars, or 0.
FirstOutside(s, chars) ==
    IF \A k \in 1..Len(s) : s[k] \in chars THEN 0
    ELSE CHOOSE k \in 1..Len(s) :
            s[k] \notin chars /\ \A j \in 1..(k - 1) : s[j] \in chars

\* Index of the last character of s that is not in chars, or 0.
LastOutside(s, chars) ==
    IF \A k \in 1..Len(s) : s[k] \in chars THEN 0
    ELSE CHOOSE k \in 1..Len(s) :
            s[k] \notin chars /\ \A j \in (k + 1)..Len(s) : s[j] \in chars

\* s.strip(chars): the maximal slice not starting or ending with a character
\* of chars.
StripChars(s, chars) ==
    IF FirstOutside(s, chars) = 0 THEN <<>>
    ELSE SubSeq(s, FirstOutside(s, chars), LastOutside(s, chars))

\* s.lstrip(chars)
LStripChars(s, chars) ==
    IF FirstOutside(s, chars) = 0 THEN <<>>
    ELSE SubSeq(s, FirstOutside(s, chars), Len(s))

\* s.strip()
Strip(s) == StripChars(s, Whitespace)

\* s.find(sub): lowest 0-based index of sub in s, or -1.
Find(s, sub) ==
    LET hits == {p \in 0..(Len(s) - Len(sub)) : SubSeq(s, p + 1, p + Len(sub)) = sub}
    IN  IF hits = {} THEN -1 ELSE CHOOSE p \in hits : \A q \in hits : p <= q

\* s.rfind(sub, start, end): highest 0-based index p with s[p:p+len(sub)] = sub
\* inside s[start:end], or -1.
RFind(s, sub, start, end) ==
    LET stop == Min(end, Len(s))
        hits == {p \in start..(stop - Len(sub)) : SubSeq(s, p + 1, p + Len(sub)) = sub}
    IN  IF hits = {} THEN -1 ELSE CHOOSE p \in hits : \A q \in hits : q <= p

\* "".join(parts)
RECURSIVE Concat(_)
Concat(parts) ==
    IF parts = <<>> THEN <<>>
    ELSE IF Len(parts) = 1 THEN parts[1]
    ELSE LET h == Len(parts) \div 2
         IN  Concat(SubSeq(parts, 1, h)) \o Concat(SubSeq(parts, h + 1, Len(parts)))

-----------------------------------------------------------------------------
(* NotionClient._split_text                                                *)

MAX_BLOCK_TEXT_LENGTH == 2000

\* One pass of the loop body: where the text is cut.
SplitPosHardCutPastLimit(t, max) ==
    LET p1 == RFind(t, <<"U3002">>, 0, max)
        p2 == IF p1 = -1 THEN RFind(t, <<".", " ">>, 0, max) ELSE p1
    IN  IF p2 = -1 THEN max + 1 ELSE p2 + 1

SplitPos(t, max) ==
    LET p1 == RFind(t, <<"U3002">>, 0, max)
        p2 == IF p1 = -1 THEN RFind(t, <<".", " ">>, 0, max) ELSE p1
    IN  IF p2 = -1 THEN max ELSE p2 + 1

\* The while loop with each chunk one character short of the cut.
RECURSIVE SplitLoopChunkShortOfCut(_, _, _)
SplitLoopChunkShortOfCut(t, max, acc) ==
    IF t = <<>> THEN acc
    ELSE IF Len(t) <= max THEN Append(acc, t)
    ELSE LET split_pos == SplitPos(t, max)
         IN  SplitLoopChunkShortOfCut(Strip(SliceFrom(t, split_pos)), max,
                                      Append(acc, Slice(t, 0, split_pos - 1)))

\* The while loop: t is the text still to split, acc the chunks so far.
RECURSIVE SplitLoop(_, _, _)
SplitLoop(t, max, acc) ==
    IF t = <<>> THEN acc
    ELSE IF Len(t) <= max THEN Append(acc, t)
    ELSE LET split_pos == SplitPos(t, max)
         IN  SplitLoop(Strip(SliceFrom(t, split_pos)), max,
                       Append(acc, Slice(t, 0, split_pos)))

SplitText(t, max) ==
    IF Len(t) <= max THEN <<t>> ELSE SplitLoop(t, max, <<>>)

-----------------------------------------------------------------------------
(* Specification SpecSplit: _split_text applied to every bounded input     *)

MaxTextLen == 5
MaxLimit == 3

SplitAlphabet == {"a", " ", ".", "U3002"}

InitSplit ==
    /\ pc = "split"
    /\ text \in SeqsUpTo(SplitAlphabet, MaxTextLen)
    /\ max_length \in 1..MaxLimit
    /\ chunks = <<>>
    /\ LangIdle /\ RenderIdle /\ CreateIdle
    /\ SummaryIdle /\ TranslateIdle /\ ExtractIdle /\ InlineIdle
    /\ ClientIdle /\ PipelineIdle

CallSplitText ==
    /\ pc = "split"
    /\ chunks' = SplitText(text, max_length)
    /\ pc' = "split_done"
    /\ UNCHANGED <<text, max_length, langVars, renderVars, createVars,
                   summaryVars, translateVars, extractVars, inlineVars,
                   clientVars, pipelineVars>>

SpecSplit == InitSplit /\ [][CallSplitText]_vars

\* C1: every chunk returned by _split_text(T, L), L >= 1, has length <= L,
\* and a text with len(T) <= L is returned as the single chunk [T].
C1_ChunksWithinLimit ==
    pc = "split_done" =>
        /\ \A k \in 1..Len(chunks) : Len(chunks[k]) <= max_length
        /\ Len(text) <= max_length => chunks = <<text>>

\* A text longer than the limit was split in several chunks, one of them cut
\* at a sentence end and one hard-cut at the limit.
C1_Witness ==
    /\ pc = "split_done"
    /\ Len(text) > max_length
    /\ Len(chunks) >= 3
    /\ \E k \in 1..Len(chunks) : Len(chunks[k]) = max_length
    /\ \E k \in 1..Len(chunks) : Len(chunks[k]) < max_length

\* C2: concatenating the chunks of _split_text(T, L) in order, with no
\* separator, reproduces T exactly.
C2_ConcatReproducesText ==
    pc = "split_done" => Concat(chunks) = text

\* The cut the claim describes: after the last full-width period or the
\* last '.' of ". " within the first max characters, whichever is later;
\* max if there is neither.
LastSentenceEnd(t, max) ==
    LET ends == {p \in 1..Min(max, Len(t)) :
                    \/ t[p] = "U3002"
                    \/ t[p] = "." /\ p + 1 <= Min(max, Len(t)) /\ t[p + 1] = " "}
    IN  IF ends = {} THEN max ELSE CHOOSE p \in ends : \A q \in ends : q <= p

\* The chunks when every cut is made there and the remainder is stripped.
RECURSIVE ChunksCutAtLastSentenceEnd(_, _)
ChunksCutAtLastSentenceEnd(t, max) ==
    IF t = <<>> THEN <<>>
    ELSE IF Len(t) <= max THEN <<t>>
    ELSE <<SubSeq(t, 1, LastSentenceEnd(t, max))>>
         \o ChunksCutAtLastSentenceEnd(
                Strip(SubSeq(t, LastSentenceEnd(t, max) + 1, Len(t))), max)

\* C21: a text longer than the limit is cut after the last sentence end of
\* either kind within the limit, at the limit if there is none, and so on
\* for the remainder.
C21_CutAfterLastSentenceEnd ==
    (pc = "split_done" /\ Len(text) > max_length) =>
        chunks = ChunksCutAtLastSentenceEnd(text, max_length)

\* The texts the loop holds at the start of its iterations, at most fuel
\* iterations after the first: the last one is the text the loop ends on.
RECURSIVE LoopTexts(_, _, _)
LoopTexts(t, max, fuel) ==
    IF t = <<>> \/ Len(t) <= max \/ fuel = 0 THEN <<t>>
    ELSE <<t>> \o LoopTexts(Strip(SliceFrom(t, SplitPos(t, max))), max, fuel - 1)

\* C24: for every text and every limit >= 1 each iteration of the loop
\* leaves a strictly shorter text, so that the loop ends within len(text)
\* iterations and the call returns; on a text longer than the limit every
\* chunk is non-empty.
C24_TerminatesWithNonEmptyChunks ==
    LET ts == LoopTexts(text, max_length, Len(text))
    IN  /\ \A n \in 1..(Len(ts) - 1) : Len(ts[n + 1]) < Len(ts[n])
        /\ Len(ts[Len(ts)]) <= max_length
        /\ (pc = "split_done" /\ Len(text) > max_length) =>
              /\ Len(chunks) \in 1..Len(text)
              /\ \A n \in 1..Len(chunks) : chunks[n] # <<>>

\* A text longer than the limit took several iterations, one of which cut
\* a chunk of a single character and one of which stripped white space off
\* the remainder.
C24_Witness ==
    /\ pc = "split_done"
    /\ Len(text) > max_length
    /\ Len(LoopTexts(text, max_length, Len(text))) >= 3
    /\ \E n \in 1..Len(chunks) : Len(chunks[n]) = 1 /\ max_length > 1
    /\ Len(Concat(chunks)) < Len(text)

-----------------------------------------------------------------------------
(* _normalize_code_language                                                *)

NOTION_CODE_LANGUAGES == {
    <<"a", "b", "a", "p">>,
    <<"a", "b", "c">>,
    <<"a", "g", "d", "a">>,
    <<"a", "r", "d", "u", "i", "n", "o">>,
    <<"a", "s", "c", "i", "i", " ", "a", "r", "t">>,
    <<"a", "s", "s", "e", "m", "b", "l", "y">>,
    <<"b", "a", "s", "h">>,
    <<"b", "a", "s", "i", "c">>,
    <<"b", "n", "f">>,
    <<"c">>,
    <<"c", "#">>,
    <<"c", "+", "+">>,
    <<"c", "l", "o", "j", "u", "r", "e">>,
    <<"c", "o", "f", "f", "e", "e", "s", "c", "r", "i", "p", "t">>,
    <<"c", "o", "q">>,
    <<"c", "s", "s">>,
    <<"d", "a", "r", "t">>,
    <<"d", "h", "a", "l", "l">>,
    <<"d", "i", "f", "f">>,
    <<"d", "o", "c", "k", "e", "r">>,
    <<"e", "b", "n", "f">>,
    <<"e", "l", "i", "x", "i", "r">>,
    <<"e", "l", "m">>,
    <<"e", "r", "l", "a", "n", "g">>,
    <<"f", "#">>,
    <<"f", "l", "o", "w">>,
    <<"f", "o", "r", "t", "r", "a", "n">>,
    <<"g", "h", "e", "r", "k", "i", "n">>,
    <<"g", "l", "s", "l">>,
    <<"g", "o">>,
    <<"g", "r", "a", "p", "h", "q", "l">>,
    <<"g", "r", "o", "o", "v", "y">>,
    <<"h", "a", "s", "k", "e", "l", "l">>,
    <<"h", "c", "l">>,
    <<"h", "t", "m", "l">>,
    <<"i", "d", "r", "i", "s">>,
    <<"j", "a", "v", "a">>,
    <<"j", "a", "v", "a", "/", "c", "/", "c", "+", "+", "/", "c", "#">>,
    <<"j", "a", "v", "a", "s", "c", "r", "i", "p", "t">>,
    <<"j", "s", "o", "n">>,
    <<"j", "u", "l", "i", "a">>,
    <<"k", "o", "t", "l", "i", "n">>,
    <<"l", "a", "t", "e", "x">>,
    <<"l", "e", "s", "s">>,
    <<"l", "i", "s", "p">>,
    <<"l", "i", "v", "e", "s", "c", "r", "i", "p", "t">>,
    <<"l", "l", "v", "m", " ", "i", "r">>,
    <<"l", "u", "a">>,
    <<"m", "a", "k", "e", "f", "i", "l", "e">>,
    <<"m", "a", "r", "k", "d", "o", "w", "n">>,
    <<"m", "a", "r", "k", "u", "p">>,
    <<"m", "a", "t", "h", "e", "m", "a", "t", "i", "c", "a">>,
    <<"m", "a", "t", "l", "a", "b">>,
    <<"m", "e", "r", "m", "a", "i", "d">>,
    <<"n", "i", "x">>,
    <<"n", "o", "t", "i", "o", "n", " ", "f", "o", "r", "m", "u", "l", "a">>,
    <<"o", "b", "j", "e", "c", "t", "i", "v", "e", "-", "c">>,
    <<"o", "c", "a", "m", "l">>,
    <<"p", "a", "s", "c", "a", "l">>,
    <<"p", "e", "r", "l">>,
    <<"p", "h", "p">>,
    <<"p", "l", "a", "i", "n", " ", "t", "e", "x", "t">>,
    <<"p", "o", "w", "e", "r", "s", "h", "e", "l", "l">>,
    <<"p", "r", "o", "l", "o", "g">>,
    <<"p", "r", "o", "t", "o", "b", "u", "f">>,
    <<"p", "u", "r", "e", "s", "c", "r", "i", "p", "t">>,
    <<"p", "y", "t", "h", "o", "n">>,
    <<"r">>,
    <<"r", "a", "c", "k", "e", "t">>,
    <<"r", "e", "a", "s", "o", "n">>,
    <<"r", "u", "b", "y">>,
    <<"r", "u", "s", "t">>,
    <<"s", "a", "s", "s">>,
    <<"s", "c", "a", "l", "a">>,
    <<"s", "c", "h", "e", "m", "e">>,
    <<"s", "c", "s", "s">>,
    <<"s", "h", "e", "l", "l">>,
    <<"s", "m", "a", "l", "l", "t", "a", "l", "k">>,
    <<"s", "o", "l", "i", "d", "i", "t", "y">>,
    <<"s", "q", "l">>,
    <<"s", "w", "i", "f", "t">>,
    <<"t", "o", "m", "l">>,
    <<"t", "y", "p", "e", "s", "c", "r", "i", "p", "t">>,
    <<"v", "b", ".", "n", "e", "t">>,
    <<"v", "e", "r", "i", "l", "o", "g">>,
    <<"v", "h", "d", "l">>,
    <<"v", "i", "s", "u", "a", "l", " ", "b", "a", "s", "i", "c">>,
    <<"w", "e", "b", "a", "s", "s", "e", "m", "b", "l", "y">>,
    <<"x", "m", "l">>,
    <<"y", "a", "m", "l">>
}

_LANGUAGE_ALIASES == {
    <<<<"j", "s">>, <<"j", "a", "v", "a", "s", "c", "r", "i", "p", "t">>>>,
    <<<<"t", "s">>, <<"t", "y", "p", "e", "s", "c", "r", "i", "p", "t">>>>,
    <<<<"p", "y">>, <<"p", "y", "t", "h", "o", "n">>>>,
    <<<<"r", "b">>, <<"r", "u", "b", "y">>>>,
    <<<<"s", "h">>, <<"s", "h", "e", "l", "l">>>>,
    <<<<"y", "m", "l">>, <<"y", "a", "m", "l">>>>,
    <<<<"d", "o", "c", "k", "e", "r", "f", "i", "l", "e">>, <<"d", "o", "c", "k", "e", "r">>>>,
    <<<<"o", "b", "j", "e", "c", "t", "i", "v", "e", "c">>, <<"o", "b", "j", "e", "c", "t", "i", "v", "e", "-", "c">>>>,
    <<<<"o", "b", "j", "e", "c", "t", "i", "v", "e", " ", "c">>, <<"o", "b", "j", "e", "c", "t", "i", "v", "e", "-", "c">>>>,
    <<<<"c", "p", "l", "u", "s", "p", "l", "u", "s">>, <<"c", "+", "+">>>>,
    <<<<"c", "s", "h", "a", "r", "p">>, <<"c", "#">>>>,
    <<<<"f", "s", "h", "a", "r", "p">>, <<"f", "#">>>>,
    <<<<"g", "o", "l", "a", "n", "g">>, <<"g", "o">>>>,
    <<<<"t", "e", "x">>, <<"l", "a", "t", "e", "x">>>>,
    <<<<"t", "e", "x", "t">>, <<"p", "l", "a", "i", "n", " ", "t", "e", "x", "t">>>>,
    <<<<"t", "x", "t">>, <<"p", "l", "a", "i", "n", " ", "t", "e", "x", "t">>>>,
    <<<<>>, <<"p", "l", "a", "i", "n", " ", "t", "e", "x", "t">>>>
}

PlainText == <<"p", "l", "a", "i", "n", " ", "t", "e", "x", "t">>

UpperCase == <<"A", "B", "C", "D", "E", "F", "G", "H", "I", "J", "K", "L", "M",
               "N", "O", "P", "Q", "R", "S", "T", "U", "V", "W", "X", "Y", "Z">>
LowerCase == <<"a", "b", "c", "d", "e", "f", "g", "h", "i", "j", "k", "l", "m",
               "n", "o", "p", "q", "r", "s", "t", "u", "v", "w", "x", "y", "z">>

\* s.lower()
LowerChar(c) ==
    IF \E k \in 1..26 : UpperCase[k] = c
    THEN LowerCase[CHOOSE k \in 1..26 : UpperCase[k] = c]
    ELSE c
Lower(s) == [k \in 1..Len(s) |-> LowerChar(s[k])]

\* lang = language.strip().lower()
CleanLanguage(l) == Lower(Strip(l))

\* The supported names the loop of lines 68-70 can return: it returns the
\* first member of the set, in the set's iteration order, that is a prefix of
\* lang or has lang as a prefix.  A Python set of str iterates in an order
\* that depends on the process's hash seed, so any matching member can come
\* first.
PrefixMatches(lang) ==
    {supported \in NOTION_CODE_LANGUAGES :
        StartsWith(lang, supported) \/ StartsWith(supported, lang)}

\* The values _normalize_code_language can return for an input.
NormalizeCodeLanguage(l) ==
    LET lang == CleanLanguage(l)
    IN  IF lang \in NOTION_CODE_LANGUAGES THEN {lang}
        ELSE IF \E a \in _LANGUAGE_ALIASES : a[1] = lang
             THEN {a[2] : a \in {b \in _LANGUAGE_ALIASES : b[1] = lang}}
        ELSE IF PrefixMatches(lang) # {} THEN PrefixMatches(lang)
        ELSE {PlainText}

-----------------------------------------------------------------------------
(* Specification SpecLang: _normalize_code_language on every bounded input *)

MaxLangLen == 3

LangAlphabet == {"c", "z", " ", "j", "S", "3"}

LangExamples == {
    <<"c", "o", "b", "o", "l">>,
    <<"z", "z", "z">>,
    <<"p", "y", "t", "h", "o", "n", "3">>,
    <<" ", "P", "y", "t", "h", "o", "n", "\n">>,
    <<"J", "S">>,
    <<"j", "a">>,
    <<"c", "+", "+", "1", "1">>,
    <<"j", "a", "v", "a", "s", "c", "r", "i", "p", "t", "1", ".", "8">>,
    <<"t", "x", "t">>
}

LangInputs == SeqsUpTo(LangAlphabet, MaxLangLen) \cup LangExamples

InitLang ==
    /\ pc = "lang"
    /\ language \in LangInputs
    /\ normalized = None
    /\ SplitIdle /\ RenderIdle /\ CreateIdle
    /\ SummaryIdle /\ TranslateIdle /\ ExtractIdle /\ InlineIdle
    /\ ClientIdle /\ PipelineIdle

CallNormalizeCodeLanguage ==
    /\ pc = "lang"
    /\ normalized' \in NormalizeCodeLanguage(language)
    /\ pc' = "lang_done"
    /\ UNCHANGED <<language, splitVars, renderVars, createVars,
                   summaryVars, translateVars, extractVars, inlineVars,
                   clientVars, pipelineVars>>

SpecLang == InitLang /\ [][CallNormalizeCodeLanguage]_vars

\* A supported name followed by a version: digits and dots ("python3",
\* "javascript1.8", "c++11").
VersionChars == {"0", "1", "2", "3", "4", "5", "6", "7", "8", "9", "."}

IsVersionSuffixed(lang, name) ==
    /\ StartsWith(lang, name)
    /\ \A k \in (Len(name) + 1)..Len(lang) : lang[k] \in VersionChars

\* The inputs the claim calls known: a supported name, an alias, or a
\* version-suffixed variant of either.
IsKnownLanguage(l) ==
    LET lang == CleanLanguage(l)
    IN  \/ lang \in NOTION_CODE_LANGUAGES
        \/ \E a \in _LANGUAGE_ALIASES : a[1] = lang
        \/ \E name \in NOTION_CODE_LANGUAGES : IsVersionSuffixed(lang, name)
        \/ \E a \in _LANGUAGE_ALIASES : a[1] # <<>> /\ IsVersionSuffixed(lang, a[1])

\* C7: _normalize_code_language returns a non-empty member of
\* NOTION_CODE_LANGUAGES for every input, and an input that is no supported
\* name, alias or version-suffixed variant of one resolves to "plain text".
C7_MemberAndUnknownIsPlainText ==
    pc = "lang_done" =>
        /\ normalized # <<>>
        /\ normalized \in NOTION_CODE_LANGUAGES
        /\ ~IsKnownLanguage(language) => normalized = PlainText

\* C25: _normalize_code_language is deterministic: the language it returns
\* is the only one it can return for that input, whatever the iteration
\* order of the set of supported names.
C25_SameLanguageInEveryOrder ==
    pc = "lang_done" => NormalizeCodeLanguage(language) = {normalized}

-----------------------------------------------------------------------------
(* More str primitives used by the renderer                                *)

\* s.split(sep): the pieces between the non-overlapping occurrences of sep,
\* found left to right.
\* Whether the left-to-right scan of s.split(sep) cuts at 0-based index p:
\* sep occurs there and no earlier cut overlaps it.
RECURSIVE CutAt(_, _, _)
CutAt(s, sep, p) ==
    /\ p + Len(sep) <= Len(s)
    /\ SubSeq(s, p + 1, p + Len(sep)) = sep
    /\ \A q \in Max(0, p - Len(sep) + 1)..(p - 1) : ~CutAt(s, sep, q)

\* s.split(sep), computed around a cut of the scan near the middle of s:
\* the scan cuts the text before it and the text after it as it would cut
\* them alone.
RECURSIVE SplitOn(_, _)
SplitOn(s, sep) ==
    LET mid == Len(s) \div 2
        top == Len(s) - Len(sep)
    IN  IF \E p \in mid..top : CutAt(s, sep, p)
        THEN LET p == CHOOSE c \in mid..top :
                         CutAt(s, sep, c) /\ \A q \in mid..(c - 1) : ~CutAt(s, sep, q)
             IN  SplitOn(Slice(s, 0, p), sep) \o SplitOn(SliceFrom(s, p + Len(sep)), sep)
        ELSE IF \E p \in 0..Min(mid - 1, top) : CutAt(s, sep, p)
        THEN LET p == CHOOSE c \in 0..Min(mid - 1, top) :
                         CutAt(s, sep, c)
                         /\ \A q \in (c + 1)..Min(mid - 1, top) : ~CutAt(s, sep, q)
             IN  SplitOn(Slice(s, 0, p), sep) \o SplitOn(SliceFrom(s, p + Len(sep)), sep)
        ELSE <<s>>

\* s.split(sep, 1)
SplitOnce(s, sep) ==
    LET p == Find(s, sep)
    IN  IF p = -1 THEN <<s>>
        ELSE <<Slice(s, 0, p), SliceFrom(s, p + Len(sep))>>

\* sep.join(parts)
Join(parts, sep) ==
    IF parts = <<>> THEN <<>>
    ELSE Concat([k \in 1..(2 * Len(parts) - 1) |->
                    IF k % 2 = 1 THEN parts[(k + 1) \div 2] ELSE sep])

NL == <<"\n">>
BlankLine == <<"\n", "\n">>

Digits == {"0", "1", "2", "3", "4", "5", "6", "7", "8", "9"}

\* Optional[str] and Optional[int]: None is told from every str (also from
\* the empty one) and from every int.
NoneStr == <<None>>
NoneInt == <<>>
SomeInt(n) == <<n>>

\* Python truth of an Optional[str]: None and "" are false.
Truthy(s) == s # NoneStr /\ s # <<>>

-----------------------------------------------------------------------------
(* _text_obj and the block helpers                                         *)

\* _text_obj: the annotations and the link are left out of the dict when
\* false / None; here they are fields that say so.
TextObj(content, bold, italic, code, link) ==
    [content |-> content, bold |-> bold, italic |-> italic, code |-> code,
     link |-> IF Truthy(link) THEN link ELSE NoneStr]

PlainTextObj(content) == TextObj(content, FALSE, FALSE, FALSE, NoneStr)

HeadingType(level) ==
    CASE Min(level, 3) = 1 -> "heading_1"
      [] Min(level, 3) = 2 -> "heading_2"
      [] OTHER -> "heading_3"

HeadingBlock(t, level) ==
    [type |-> HeadingType(level), rich_text |-> <<PlainTextObj(t)>>]

ParagraphBlock(t, italic) ==
    [type |-> "paragraph", rich_text |-> <<TextObj(t, FALSE, italic, FALSE, NoneStr)>>]

CalloutBlock(t, emoji) ==
    [type |-> "callout", icon |-> emoji, rich_text |-> <<PlainTextObj(t)>>]

TableOfContentsBlock == [type |-> "table_of_contents", color |-> "gray"]

CodeBlock(code, lang) ==
    [type |-> "code", rich_text |-> <<PlainTextObj(code)>>, language |-> lang]

QuoteBlock(t) == [type |-> "quote", rich_text |-> <<PlainTextObj(t)>>]

BulletedListBlock(t) ==
    [type |-> "bulleted_list_item", rich_text |-> <<PlainTextObj(t)>>]

NumberedListBlock(t) ==
    [type |-> "numbered_list_item", rich_text |-> <<PlainTextObj(t)>>]

SourceLinkLabel == <<"U5143", "U8A18", "U4E8B">>

\* The link to the source written as a paragraph of text.
BookmarkAsParagraph(url) ==
    [type |-> "paragraph",
     rich_text |-> <<TextObj(SourceLinkLabel \o <<":", " ">> \o url, FALSE, FALSE, FALSE, url)>>]

BookmarkBlock(url) == [type |-> "bookmark", url |-> url]

DividerBlock == [type |-> "divider"]

-----------------------------------------------------------------------------
(* NotionClient._parse_inline_markdown                                     *)

\* Lowest index k >= from with P(k), or 0.
FirstFrom(t, from, c) ==
    LET hits == {k \in from..Len(t) : t[k] = c}
    IN  IF hits = {} THEN 0 ELSE CHOOSE k \in hits : \A j \in hits : k <= j

NoMatch == [stop |-> 0, obj |-> PlainTextObj(<<>>)]

\* \[([^\]]+)\]\(([^)]+)\) matched at index p (1-based); stop is the index of
\* the match's last character.
LinkMatch(t, p) ==
    LET q == FirstFrom(t, p + 1, "]")
        r == IF q = 0 THEN 0 ELSE FirstFrom(t, q + 2, ")")
    IN  IF /\ t[p] = "["
           /\ q >= p + 2
           /\ q + 1 <= Len(t)
           /\ t[q + 1] = "("
           /\ r >= q + 3
        THEN [stop |-> r,
              obj |-> TextObj(SubSeq(t, p + 1, q - 1), FALSE, FALSE, FALSE,
                              SubSeq(t, q + 2, r - 1))]
        ELSE NoMatch

\* \*\*(.+?)\*\* matched at index p: the shortest non-empty run without a
\* newline that is followed by "**".
BoldMatch(t, p) ==
    LET ends == {k \in (p + 3)..(Len(t) - 1) :
                    /\ t[k] = "*"
                    /\ t[k + 1] = "*"
                    /\ \A j \in (p + 2)..(k - 1) : t[j] # "\n"}
        e == IF ends = {} THEN 0 ELSE CHOOSE k \in ends : \A j \in ends : k <= j
    IN  IF /\ p + 1 <= Len(t)
           /\ t[p] = "*"
           /\ t[p + 1] = "*"
           /\ e # 0
        THEN [stop |-> e + 1,
              obj |-> TextObj(SubSeq(t, p + 2, e - 1), TRUE, FALSE, FALSE, NoneStr)]
        ELSE NoMatch

\* \*(.+?)\* matched at index p.
ItalicMatch(t, p) ==
    LET ends == {k \in (p + 2)..Len(t) :
                    /\ t[k] = "*"
                    /\ \A j \in (p + 1)..(k - 1) : t[j] # "\n"}
        e == IF ends = {} THEN 0 ELSE CHOOSE k \in ends : \A j \in ends : k <= j
    IN  IF t[p] = "*" /\ e # 0
        THEN [stop |-> e,
              obj |-> TextObj(SubSeq(t, p + 1, e - 1), FALSE, TRUE, FALSE, NoneStr)]
        ELSE NoMatch

\* `([^`]+)` matched at index p.
InlineCodeMatch(t, p) ==
    LET q == FirstFrom(t, p + 1, "U60")
    IN  IF t[p] = "U60" /\ q >= p + 2
        THEN [stop |-> q,
              obj |-> TextObj(SubSeq(t, p + 1, q - 1), FALSE, FALSE, TRUE, NoneStr)]
        ELSE NoMatch

\* The alternation with the italic alternative tried before the bold one.
MatchAtItalicFirst(t, p) ==
    IF t[p] \notin {"[", "*", "U60"} THEN NoMatch
    ELSE IF LinkMatch(t, p).stop # 0 THEN LinkMatch(t, p)
    ELSE IF ItalicMatch(t, p).stop # 0 THEN ItalicMatch(t, p)
    ELSE IF BoldMatch(t, p).stop # 0 THEN BoldMatch(t, p)
    ELSE InlineCodeMatch(t, p)

\* The alternation at index p: the first alternative that matches there.
MatchAt(t, p) ==
    IF t[p] \notin {"[", "*", "U60"} THEN NoMatch
    ELSE IF LinkMatch(t, p).stop # 0 THEN LinkMatch(t, p)
    ELSE IF BoldMatch(t, p).stop # 0 THEN BoldMatch(t, p)
    ELSE IF ItalicMatch(t, p).stop # 0 THEN ItalicMatch(t, p)
    ELSE InlineCodeMatch(t, p)

\* The finditer loop: last_end characters are consumed, parts is the list so
\* far.
RECURSIVE ParseInlineFrom(_, _, _)
ParseInlineFrom(t, last_end, parts) ==
    LET starts == {p \in (last_end + 1)..Len(t) : MatchAt(t, p).stop # 0}
    IN  IF starts = {}
        THEN IF last_end < Len(t)
             THEN Append(parts, PlainTextObj(SliceFrom(t, last_end)))
             ELSE parts
        ELSE LET p == CHOOSE k \in starts : \A j \in starts : k <= j
                 m == MatchAt(t, p)
                 plain == IF p - 1 > last_end
                          THEN <<PlainTextObj(SubSeq(t, last_end + 1, p - 1))>>
                          ELSE <<>>
             IN  ParseInlineFrom(t, m.stop, parts \o plain \o <<m.obj>>)

ParseInlineMarkdown(t) ==
    LET parts == ParseInlineFrom(t, 0, <<>>)
    IN  IF parts = <<>> THEN <<PlainTextObj(t)>> ELSE parts

RichParagraphBlock(t) ==
    [type |-> "paragraph", rich_text |-> ParseInlineMarkdown(t)]

-----------------------------------------------------------------------------
(* NotionClient._build_summary_blocks                                      *)

EmojiBook == "U1F4D6"
EmojiBulb == "U1F4A1"
EmojiTools == "U1F6E0"
EmojiLink == "U1F517"
EmojiMemo == "U1F4DD"

\* emoji_map, in the dict's order.
EmojiKeys == <<EmojiBook, EmojiBulb, EmojiTools, EmojiLink>>

\* The emoji of a section header: the first key the header starts with, or
\* the default.
HeaderEmoji(header) ==
    LET hits == {k \in 1..Len(EmojiKeys) : StartsWith(header, <<EmojiKeys[k]>>)}
    IN  IF hits = {} THEN EmojiMemo
        ELSE EmojiKeys[CHOOSE k \in hits : \A j \in hits : k <= j]

\* The loop body for one section that is not empty after strip().
SectionBlocks(section) ==
    LET lines == SplitOnce(section, NL)
        header == Strip(lines[1])
        body == IF Len(lines) > 1 THEN Strip(lines[2]) ELSE <<>>
    IN  <<HeadingBlock(header, 3)>>
        \o IF body # <<>>
           THEN <<CalloutBlock(Slice(body, 0, MAX_BLOCK_TEXT_LENGTH), HeaderEmoji(header))>>
           ELSE <<>>

RECURSIVE SectionsBlocks(_)
SectionsBlocks(sections) ==
    IF sections = <<>> THEN <<>>
    ELSE LET section == Strip(Head(sections))
         IN  (IF section = <<>> THEN <<>> ELSE SectionBlocks(section))
             \o SectionsBlocks(Tail(sections))

BuildSummaryBlocks(summary) ==
    LET bs == SectionsBlocks(SplitOn(summary, BlankLine))
    IN  IF bs = <<>>
        THEN <<CalloutBlock(Slice(summary, 0, MAX_BLOCK_TEXT_LENGTH), EmojiMemo)>>
        ELSE bs

-----------------------------------------------------------------------------
(* NotionClient._build_content_blocks                                      *)

SummaryHeading == <<"U8981", "U7D04">>
TranslationHeading == <<"U7FFB", "U8A33">>
ImageMarker == <<"[", "U753B", "U50CF", ":">>
Fence == <<"U60", "U60", "U60">>

\* Number of characters of cs at the start of t[from..].
LeadingRun(t, from, cs) ==
    IF \A k \in from..Len(t) : t[k] \in cs THEN Max(Len(t) - from + 1, 0)
    ELSE (CHOOSE k \in from..Len(t) :
            t[k] \notin cs /\ \A j \in from..(k - 1) : t[j] \in cs) - from

\* re.match(r"^\d+\.\s", t)
OrderedStart(t) ==
    LET d == LeadingRun(t, 1, Digits)
    IN  /\ d >= 1
        /\ d + 2 <= Len(t)
        /\ t[d + 1] = "."
        /\ t[d + 2] \in Whitespace

\* group(1) of re.match(r"^\d+\.\s+(.*)", line), for a line that matches.
OrderedItemText(line) ==
    LET d == LeadingRun(line, 1, Digits)
        w == LeadingRun(line, d + 2, Whitespace)
    IN  SliceFrom(line, d + 1 + w)

IsBullet(t) == StartsWith(t, <<"-", " ">>) \/ StartsWith(t, <<"*", " ">>)

\* The code branch, lines 315-321: the language tag handed to
\* _normalize_code_language and the code payload.
FenceParts(para) ==
    LET code_content == Strip(StripChars(para, {"U60"}))
        lang_end == Find(code_content, NL)
    IN  IF lang_end > 0
        THEN [language |-> Strip(Slice(code_content, 0, lang_end)),
              code_content |-> SliceFrom(code_content, lang_end + 1)]
        ELSE [language |-> PlainText, code_content |-> code_content]

\* One block per element of a list of texts.
CodeBlocks(cs, lang) == [k \in 1..Len(cs) |-> CodeBlock(cs[k], lang)]
RichParagraphBlocks(cs) == [k \in 1..Len(cs) |-> RichParagraphBlock(cs[k])]

\* The quote branch, lines 327-330.
QuoteText(para) ==
    LET lines == SplitOn(para, NL)
    IN  Join([k \in 1..Len(lines) |-> Strip(LStripChars(lines[k], {">", " "}))], NL)

\* The numbered-list branch, lines 334-340.
NumberedBlocks(para) ==
    LET lines == SplitOn(para, NL)
        stripped == [k \in 1..Len(lines) |-> Strip(lines[k])]
        items == SelectSeq(stripped, LAMBDA l : OrderedStart(l))
    IN  [k \in 1..Len(items) |-> NumberedListBlock(Strip(OrderedItemText(items[k])))]

\* The bulleted-list branch with every line made an item, prefixed or not.
BulletedBlocksEveryLine(para) ==
    LET lines == SplitOn(para, NL)
        stripped == [k \in 1..Len(lines) |-> Strip(lines[k])]
    IN  [k \in 1..Len(stripped) |->
            BulletedListBlock(IF IsBullet(stripped[k])
                              THEN Strip(SliceFrom(stripped[k], 2))
                              ELSE stripped[k])]

\* The bulleted-list branch, lines 343-348.
BulletedBlocks(para) ==
    LET lines == SplitOn(para, NL)
        stripped == [k \in 1..Len(lines) |-> Strip(lines[k])]
        items == SelectSeq(stripped, LAMBDA l : IsBullet(l))
    IN  [k \in 1..Len(items) |-> BulletedListBlock(Strip(SliceFrom(items[k], 2)))]

\* The branches of lines 313-355, tried once no heading prefix matched.  pick
\* gives, for a language tag, the value _normalize_code_language returns for
\* it in this run.
NonHeadingBlocks(para, pick) ==
    IF StartsWith(para, Fence)
    THEN CodeBlocks(SplitText(FenceParts(para).code_content, MAX_BLOCK_TEXT_LENGTH),
                    pick[FenceParts(para).language])
    ELSE IF StartsWith(para, <<">", " ">>)
    THEN <<QuoteBlock(QuoteText(para))>>
    ELSE IF OrderedStart(para)
    THEN NumberedBlocks(para)
    ELSE IF IsBullet(para)
    THEN BulletedBlocks(para)
    ELSE IF StartsWith(para, ImageMarker)
    THEN <<ParagraphBlock(para, TRUE)>>
    ELSE RichParagraphBlocks(SplitText(para, MAX_BLOCK_TEXT_LENGTH))

\* The heading tests written as an if of their own, so that a heading
\* paragraph goes on to the remaining branches as well.
ParagraphBlocksFallThrough(para, pick) ==
    (IF StartsWith(para, <<"#", "#", "#", " ">>)
     THEN <<HeadingBlock(SliceFrom(para, 4), 3)>>
     ELSE IF StartsWith(para, <<"#", "#", " ">>)
     THEN <<HeadingBlock(SliceFrom(para, 3), 2)>>
     ELSE IF StartsWith(para, <<"#", " ">>)
     THEN <<HeadingBlock(SliceFrom(para, 2), 1)>>
     ELSE <<>>)
    \o NonHeadingBlocks(para, pick)

\* The if/elif chain of lines 307-355 for one paragraph that is not empty
\* after strip().
ParagraphBlocks(para, pick) ==
    IF StartsWith(para, <<"#", "#", "#", " ">>)
    THEN <<HeadingBlock(SliceFrom(para, 4), 3)>>
    ELSE IF StartsWith(para, <<"#", "#", " ">>)
    THEN <<HeadingBlock(SliceFrom(para, 3), 2)>>
    ELSE IF StartsWith(para, <<"#", " ">>)
    THEN <<HeadingBlock(SliceFrom(para, 2), 1)>>
    ELSE NonHeadingBlocks(para, pick)

\* paragraphs of lines 300-304: the pieces between blank lines, stripped,
\* the empty ones skipped.
Paragraphs(content) ==
    LET raw == SplitOn(content, BlankLine)
    IN  SelectSeq([k \in 1..Len(raw) |-> Strip(raw[k])], LAMBDA q : q # <<>>)

ParagraphsBlocks(paras, pick) ==
    Concat([k \in 1..Len(paras) |-> ParagraphBlocks(paras[k], pick)])

\* The language tags of the code paragraphs of a text.
LanguageTags(content) ==
    LET paras == Paragraphs(content)
    IN  {FenceParts(paras[k]).language :
            k \in {j \in 1..Len(paras) : StartsWith(paras[j], Fence)}}

\* The functions that give each tag of a set a value _normalize_code_language
\* can return for it.
RECURSIVE ChoicesFor(_)
ChoicesFor(tags) ==
    IF tags = {} THEN {<<>>}
    ELSE LET l == CHOOSE x \in tags : TRUE
         IN  {(l :> v) @@ pick :
                 v \in NormalizeCodeLanguage(l), pick \in ChoicesFor(tags \ {l})}

\* What _normalize_code_language can return for each tag of a text.
LanguageChoices(content) == ChoicesFor(LanguageTags(content))

\* The summary section without the divider that closes it.
BuildContentBlocksNoSummaryDivider(r, pick) ==
    <<TableOfContentsBlock, DividerBlock>>
    \o (IF Truthy(r.summary)
        THEN <<HeadingBlock(SummaryHeading, 2)>> \o BuildSummaryBlocks(r.summary)
        ELSE <<>>)
    \o <<HeadingBlock(TranslationHeading, 2)>>
    \o ParagraphsBlocks(Paragraphs(r.japanese_content), pick)
    \o <<DividerBlock, BookmarkBlock(r.original.url)>>

BuildContentBlocks(r, pick) ==
    <<TableOfContentsBlock, DividerBlock>>
    \o (IF Truthy(r.summary)
        THEN <<HeadingBlock(SummaryHeading, 2)>>
             \o BuildSummaryBlocks(r.summary)
             \o <<DividerBlock>>
        ELSE <<>>)
    \o <<HeadingBlock(TranslationHeading, 2)>>
    \o ParagraphsBlocks(Paragraphs(r.japanese_content), pick)
    \o <<DividerBlock, BookmarkBlock(r.original.url)>>

-----------------------------------------------------------------------------
(* Specification SpecRender: _build_content_blocks on bounded inputs       *)

MaxParas == 3
MaxParasWithSummary == 1

\* A text one character longer than a block may hold.
LongText == [k \in 1..(MAX_BLOCK_TEXT_LENGTH + 1) |-> "x"]

\* The prefixes the renderer tests a paragraph for, a four-'#' heading as
\* the extractor writes it, and no prefix.
Prefixes == {
    <<>>,
    <<"#", " ">>, <<"#", "#", " ">>, <<"#", "#", "#", " ">>,
    <<"#", "#", "#", "#", " ">>,
    Fence,
    <<">", " ">>,
    <<"1", ".", " ">>,
    <<"-", " ">>, <<"*", " ">>,
    ImageMarker
}

\* What follows the prefix: plain text, text that itself starts like a list
\* item, and two lines the second of which is a list item.
Bodies == {
    <<"x">>,
    <<"-", " ", "x">>,
    <<"p", "y", "\n", "-", " ", "x">>
}

ShortParas == {pre \o body : pre \in Prefixes, body \in Bodies}
SimpleParas == {pre \o <<"x">> : pre \in Prefixes}
LongParas == {pre \o LongText : pre \in Prefixes}

\* Fenced code as the extractor writes it (no language tag, one line and
\* two lines of code) and with a language tag.
FencedParas == {
    <<"U60", "U60", "U60", "p", "y", "t", "h", "o", "n", "\n", "p", "r",
      "i", "n", "t", "(", "1", ")", "\n", "U60", "U60", "U60">>,
    <<"U60", "U60", "U60", "j", "s", "\n", "a", "\n", "b", "\n", "U60",
      "U60", "U60">>,
    <<"U60", "U60", "U60", "\n", "x", "=", "1", "\n", "U60", "U60", "U60">>,
    <<"U60", "U60", "U60", "\n", "x", "=", "1", "\n", "y", "=", "2", "\n",
      "U60", "U60", "U60">>
}

\* Quotes: a nested marker, several lines, a line without marker.
QuoteParas == {
    <<">", " ", ">", "x">>,
    <<">", " ", ">", " ", "x">>,
    <<">", " ", "a", "\n", ">", " ", "b">>,
    <<">", " ", "a", "\n", "b">>
}

\* Lists: several items, an item without text, an indented item, a line
\* that is no item, a line of the other kind of list.
ListParas == {
    <<"-", " ", "a", "\n", "-", " ", "b">>,
    <<"-", " ", "a", "\n", "-", " ", "\n", "-", " ", "b">>,
    <<"*", " ", "a", "\n", " ", " ", "-", " ", "b", "\n", "c">>,
    <<"1", ".", " ", "a", "\n", "2", ".", " ", "b">>,
    <<"1", ".", " ", "\n", "2", ".", " ", "b">>,
    <<"1", ".", " ", "a", "\n", "-", " ", "b", "\n", " ", "3", ".", "\t",
      "c">>
}

\* "\n\n".join of up to n paragraphs.
ContentsOf(paras, n) == {Join(ps, BlankLine) : ps \in SeqsUpTo(paras, n)}

OverviewHeader == <<EmojiBook, " ", "U6982", "U8981">>
UseCasesHeader == <<EmojiTools, " ", "U6D3B", "U7528", "U65B9", "U6CD5">>

Summaries == {
    NoneStr,
    <<>>,
    <<"x">>,
    OverviewHeader \o NL \o <<"x">>,
    OverviewHeader \o NL \o <<"x">> \o BlankLine \o UseCasesHeader \o NL \o <<"x">>,
    OverviewHeader \o NL \o LongText
}

DefaultUrl == <<"u", "1">>
Urls == {DefaultUrl, <<"u", "2">>}

Title == <<"T">>

MkResult(content, summary, url) ==
    [original |-> [url |-> url],
     japanese_title |-> Title,
     japanese_content |-> content,
     categories |-> <<>>,
     summary |-> summary]

\* Every summary with the texts of few paragraphs and with each oversized
\* paragraph; the texts of more, simpler paragraphs without a summary; every
\* URL with an empty and a one-paragraph text; every fenced paragraph, quote
\* and list.
RenderInputs ==
    {MkResult(c, sm, DefaultUrl) :
        c \in ContentsOf(ShortParas, MaxParasWithSummary) \cup LongParas,
        sm \in Summaries}
    \cup {MkResult(c, NoneStr, DefaultUrl) : c \in ContentsOf(SimpleParas, MaxParas)}
    \cup {MkResult(c, sm, u) : c \in {<<>>, <<"x">>}, sm \in Summaries, u \in Urls}
    \cup {MkResult(c, NoneStr, DefaultUrl) : c \in FencedParas \cup QuoteParas \cup ListParas}

InitRender ==
    /\ pc = "render"
    /\ result \in RenderInputs
    /\ score = NoneInt
    /\ blocks = <<>>
    /\ SplitIdle /\ LangIdle /\ CreateIdle
    /\ SummaryIdle /\ TranslateIdle /\ ExtractIdle /\ InlineIdle
    /\ ClientIdle /\ PipelineIdle

CallBuildContentBlocks ==
    /\ pc = "render"
    /\ \E pick \in LanguageChoices(result.japanese_content) :
           blocks' = BuildContentBlocks(result, pick)
    /\ pc' = "render_done"
    /\ UNCHANGED <<result, score, splitVars, langVars, createVars,
                   summaryVars, translateVars, extractVars, inlineVars,
                   clientVars, pipelineVars>>

SpecRender == InitRender /\ [][CallBuildContentBlocks]_vars

-----------------------------------------------------------------------------
(* Claims about _build_content_blocks                                      *)

HasRichText(b) == "rich_text" \in DOMAIN b

Last(sq) == sq[Len(sq)]

\* Number of occurrences of the character c in t.
CountChar(t, c) == Cardinality({k \in 1..Len(t) : t[k] = c})

\* The rich-text content strings of a block list, in order.
RECURSIVE Contents_(_)
Contents_(bs) ==
    IF bs = <<>> THEN <<>>
    ELSE (IF HasRichText(Head(bs))
          THEN [k \in 1..Len(Head(bs).rich_text) |-> Head(bs).rich_text[k].content]
          ELSE <<>>)
         \o Contents_(Tail(bs))

\* C3: every rich-text content string of every block returned by
\* _build_content_blocks has length <= MAX_BLOCK_TEXT_LENGTH.
C3_ContentWithinBlockLimit ==
    pc = "render_done" =>
        \A k \in 1..Len(blocks) :
            HasRichText(blocks[k]) =>
                \A j \in 1..Len(blocks[k].rich_text) :
                    Len(blocks[k].rich_text[j].content) <= MAX_BLOCK_TEXT_LENGTH

\* Whether the input holds oversized text: a paragraph of the body or the
\* summary longer than a block may hold.
HasOversizedText(r) ==
    \/ \E k \in 1..Len(Paragraphs(r.japanese_content)) :
          Len(Paragraphs(r.japanese_content)[k]) > MAX_BLOCK_TEXT_LENGTH
    \/ /\ Truthy(r.summary)
       /\ \E k \in 1..Len(SplitOn(r.summary, BlankLine)) :
            Len(SplitOn(r.summary, BlankLine)[k]) > MAX_BLOCK_TEXT_LENGTH

\* The letters of the text proper ("x"; no marker, header or language tag of
\* the inputs holds one) in an Optional[str].
Letters(t) == IF t = NoneStr THEN 0 ELSE CountChar(t, "x")

\* C4: the renderer never truncates oversized text: when the body or the
\* summary holds oversized text, all of the text is in the rendered blocks.
C4_OversizedTextNotTruncated ==
    (pc = "render_done" /\ HasOversizedText(result)) =>
        CountChar(Concat(Contents_(blocks)), "x")
            = Letters(result.japanese_content) + Letters(result.summary)

\* The rules of the claim, in its order; rule 9 (rich paragraph) matches
\* every paragraph.
RuleMatches(r, para) ==
    CASE r = 1 -> StartsWith(para, <<"#", "#", "#", " ">>)
      [] r = 2 -> StartsWith(para, <<"#", "#", " ">>)
      [] r = 3 -> StartsWith(para, <<"#", " ">>)
      [] r = 4 -> StartsWith(para, Fence)
      [] r = 5 -> StartsWith(para, <<">", " ">>)
      [] r = 6 -> OrderedStart(para)
      [] r = 7 -> IsBullet(para)
      [] r = 8 -> StartsWith(para, ImageMarker)
      [] OTHER -> TRUE

RuleType == <<"heading_3", "heading_2", "heading_1", "code", "quote",
              "numbered_list_item", "bulleted_list_item", "paragraph", "paragraph">>

FirstRule(para) ==
    CHOOSE r \in 1..9 : RuleMatches(r, para) /\ \A q \in 1..(r - 1) : ~RuleMatches(q, para)

\* The text a heading rule leaves: the paragraph without its marker.
HeadingRemainder(r, para) == SliceFrom(para, 5 - r)

\* C8: each non-empty paragraph is classified by exactly one rule, the first
\* that matches in the order heading (###, ##, #), code fence, blockquote,
\* ordered list, bulleted list, image placeholder, rich paragraph; it emits
\* blocks of that rule only, and a heading paragraph emits exactly one block.
C8_FirstMatchingRuleOnly ==
    pc = "render_done" =>
        \E pick \in LanguageChoices(result.japanese_content) :
            /\ blocks = BuildContentBlocks(result, pick)
            /\ \A k \in 1..Len(Paragraphs(result.japanese_content)) :
                 LET para == Paragraphs(result.japanese_content)[k]
                     r == FirstRule(para)
                     bs == ParagraphBlocks(para, pick)
                 IN  /\ \A j \in 1..Len(bs) : bs[j].type = RuleType[r]
                     /\ r <= 3 => bs = <<HeadingBlock(HeadingRemainder(r, para), 4 - r)>>
                     /\ r = 8 => Len(bs) = 1

\* The paragraph "# - x" was rendered: one heading_1 block with the text
\* "- x", and no list item.
C8_Witness ==
    /\ pc = "render_done"
    /\ Paragraphs(result.japanese_content) = << <<"#", " ", "-", " ", "x">> >>
    /\ \E k \in 1..Len(blocks) : blocks[k] = HeadingBlock(<<"-", " ", "x">>, 1)
    /\ \A k \in 1..Len(blocks) : blocks[k].type # "bulleted_list_item"

Contains(t, sub) == Find(t, sub) # -1

IsFencedPara(para) ==
    /\ StartsWith(para, Fence)
    /\ Len(para) >= 2 * Len(Fence) + 2
    /\ SubSeq(para, Len(para) - Len(Fence), Len(para)) = NL \o Fence
    /\ Find(para, NL) < Len(para) - Len(Fence) - 1
    /\ Find(para, BlankLine) = -1

\* Its first line after the fence, and the lines between that line and the
\* closing fence.
FenceTag(para) == SubSeq(para, Len(Fence) + 1, Find(para, NL))
FenceCode(para) == SubSeq(para, Find(para, NL) + 2, Len(para) - Len(Fence) - 1)

CodeBlocksOf(bs) == SelectSeq(bs, LAMBDA b : b.type = "code")

\* C18: a fenced paragraph renders to one code block; with a language tag
\* its language is the normalized tag and its payload the lines after the
\* tag; without a tag its language is "plain text" and its payload the whole
\* code, first line included.
C18_FencedCodeLanguageAndPayload ==
    (pc = "render_done" /\ IsFencedPara(result.japanese_content)) =>
        LET para == result.japanese_content
        IN  \E lang \in (IF FenceTag(para) = <<>> THEN {PlainText}
                         ELSE NormalizeCodeLanguage(FenceTag(para))) :
                CodeBlocksOf(blocks) = <<CodeBlock(FenceCode(para), lang)>>

\* The body of the result is the one paragraph para.
OneParagraph(para) ==
    /\ pc = "render_done"
    /\ para # <<>>
    /\ para = Strip(para)
    /\ Find(para, BlankLine) = -1
    /\ \A n \in 1..3 : ~RuleMatches(n, para)

\* The blocks of the body: those between the heading of the translation and
\* the closing divider.
BodyBlocks(bs) ==
    LET h == CHOOSE n \in 1..Len(bs) : bs[n] = HeadingBlock(TranslationHeading, 2)
    IN  SubSeq(bs, h + 1, Len(bs) - 2)

\* A line without one leading "> ", white space at its ends aside.
WithoutQuoteMarker(line) ==
    IF StartsWith(line, <<">", " ">>) THEN Strip(SubSeq(line, 3, Len(line)))
    ELSE Strip(line)

\* C22: a paragraph that starts with "> " renders to one quote block whose
\* text is its lines, each without its one leading "> ".
C22_QuoteKeepsTextAfterMarker ==
    LET para == result.japanese_content IN
    (OneParagraph(para) /\ StartsWith(para, <<">", " ">>)) =>
        LET ls == SplitOn(para, NL)
        IN  BodyBlocks(blocks)
              = <<QuoteBlock(Join([n \in 1..Len(ls) |-> WithoutQuoteMarker(ls[n])], NL))>>

\* The list prefix at the start of a line and the text after it.
HasListPrefix(line, ordered) ==
    IF ordered THEN OrderedStart(line) ELSE IsBullet(line)
AfterListPrefix(line, ordered) ==
    IF ordered
    THEN Strip(SubSeq(line, LeadingRun(line, 1, Digits) + 2, Len(line)))
    ELSE Strip(SubSeq(line, 3, Len(line)))
ListItemBlock(t, ordered) ==
    IF ordered THEN NumberedListBlock(t) ELSE BulletedListBlock(t)

\* The list items of a paragraph: one per line that Trimmed(line) shows to
\* carry the prefix.
ListItemsOf(para, Trimmed(_)) ==
    LET ordered == OrderedStart(para)
        ls == SplitOn(para, NL)
    IN  Concat([n \in 1..Len(ls) |->
                   IF HasListPrefix(Trimmed(ls[n]), ordered)
                   THEN <<ListItemBlock(AfterListPrefix(Trimmed(ls[n]), ordered), ordered)>>
                   ELSE <<>>])

IsListParagraph(para) ==
    /\ OneParagraph(para)
    /\ ~StartsWith(para, Fence)
    /\ ~StartsWith(para, <<">", " ">>)
    /\ OrderedStart(para) \/ IsBullet(para)

\* C23 as claimed: a list paragraph renders to one list item of its kind
\* per line that carries the list prefix (after its indentation), in order,
\* with the text after the prefix, and to nothing else.
C23_ItemPerLineWithPrefix ==
    LET para == result.japanese_content IN
    IsListParagraph(para) =>
        BodyBlocks(blocks) = ListItemsOf(para, LAMBDA l : LStripChars(l, Whitespace))

\* C23 as amended: one list item per line that carries the prefix and text
\* after it once the white space at both ends of the line is removed; a
\* line that holds the prefix alone gives no block.
C23_ItemPerTrimmedLineWithPrefix ==
    LET para == result.japanese_content IN
    IsListParagraph(para) =>
        BodyBlocks(blocks) = ListItemsOf(para, LAMBDA l : Strip(l))

\* The list "* a", "  - b", "c" was rendered: two bulleted items.
C23_Witness ==
    /\ pc = "render_done"
    /\ IsListParagraph(result.japanese_content)
    /\ Len(SplitOn(result.japanese_content, NL)) = 3
    /\ BodyBlocks(blocks) = <<BulletedListBlock(<<"a">>), BulletedListBlock(<<"b">>)>>

-----------------------------------------------------------------------------
(* NotionClient._build_properties and NotionClient.create_page             *)

MAX_BLOCKS_PER_REQUEST == 100

\* date.today().isoformat()
Today == <<"2", "0", "2", "6", "-", "0", "1", "-", "0", "1">>

\* datetime.now()
Now == "now"

MultiSelect(categories) == [k \in 1..Len(categories) |-> [name |-> categories[k]]]

\* _build_properties with the score tested for truth: a score of 0 is left
\* out.
BuildPropertiesScoreIfTruthy(r, sc) ==
    LET base == [Name |-> r.japanese_title, URL |-> r.original.url, read_date |-> Today]
        set == sc # NoneInt /\ sc # SomeInt(0)
    IN  IF r.categories # <<>> /\ set
        THEN [Name |-> base.Name, URL |-> base.URL, read_date |-> base.read_date,
              Categories |-> MultiSelect(r.categories), Score |-> sc[1]]
        ELSE IF r.categories # <<>>
        THEN [Name |-> base.Name, URL |-> base.URL, read_date |-> base.read_date,
              Categories |-> MultiSelect(r.categories)]
        ELSE IF set
        THEN [Name |-> base.Name, URL |-> base.URL, read_date |-> base.read_date,
              Score |-> sc[1]]
        ELSE base

\* _build_properties: Categories and Score are keys of the dict only when
\* set.
BuildProperties(r, sc) ==
    LET base == [Name |-> r.japanese_title, URL |-> r.original.url, read_date |-> Today]
    IN  IF r.categories # <<>> /\ sc # NoneInt
        THEN [Name |-> base.Name, URL |-> base.URL, read_date |-> base.read_date,
              Categories |-> MultiSelect(r.categories), Score |-> sc[1]]
        ELSE IF r.categories # <<>>
        THEN [Name |-> base.Name, URL |-> base.URL, read_date |-> base.read_date,
              Categories |-> MultiSelect(r.categories)]
        ELSE IF sc # NoneInt
        THEN [Name |-> base.Name, URL |-> base.URL, read_date |-> base.read_date,
              Score |-> sc[1]]
        ELSE base

\* self.database_id
DatabaseId == "database"

\* What pages.create can answer: an id, and a url that may be missing
\* (response.get("url", "")).
Responses == {[id |-> "page-1", url |-> <<"n", "1">>], [id |-> "page-2", url |-> <<>>]}

\* first_batch = children[:MAX_BLOCKS_PER_REQUEST], without the cap.
FirstBatchUncapped(cs) == cs

FirstBatch(cs) == Slice(cs, 0, MAX_BLOCKS_PER_REQUEST)

\* remaining = children[MAX_BLOCKS_PER_REQUEST:], one block too far.
RemainingSkipsOne(cs) == SliceFrom(cs, MAX_BLOCKS_PER_REQUEST + 1)

Remaining(cs) == SliceFrom(cs, MAX_BLOCKS_PER_REQUEST)

\* chunk = remaining[i : i + MAX_BLOCKS_PER_REQUEST]
Chunk(rem, k) == SubSeq(rem, k + 1, Min(k + MAX_BLOCKS_PER_REQUEST, Len(rem)))

CreateCall(r, sc, cs, ok) ==
    [api |-> "pages.create", target |-> DatabaseId,
     properties |-> BuildProperties(r, sc), children |-> FirstBatch(cs), ok |-> ok]

AppendCall(block_id, chunk, ok) ==
    [api |-> "blocks.children.append", target |-> block_id, children |-> chunk, ok |-> ok]

\* Lines 199-220: the properties and the blocks are built and pages.create
\* answers.
PagesCreate ==
    /\ pc = "create_page"
    /\ \E pick \in LanguageChoices(result.japanese_content), resp \in Responses :
         LET cs == BuildContentBlocks(result, pick)
         IN  /\ children' = cs
             /\ calls' = <<CreateCall(result, score, cs, TRUE)>>
             /\ response' = resp
             /\ remaining' = Remaining(cs)
    /\ i' = 0
    /\ pc' = "append_loop"
    /\ UNCHANGED <<result, score, blocks, page, splitVars, langVars,
                   summaryVars, translateVars, extractVars, inlineVars,
                   clientVars, pipelineVars>>

\* Lines 199-214 and 242-244: pages.create raises APIResponseError, which
\* create_page raises on as RuntimeError.
PagesCreateRaises ==
    /\ pc = "create_page"
    /\ \E pick \in LanguageChoices(result.japanese_content) :
         LET cs == BuildContentBlocks(result, pick)
         IN  /\ children' = cs
             /\ calls' = <<CreateCall(result, score, cs, FALSE)>>
    /\ pc' = "raised"
    /\ UNCHANGED <<result, score, blocks, response, remaining, i, page,
                   splitVars, langVars, summaryVars, translateVars, extractVars, inlineVars,
                   clientVars, pipelineVars>>

\* Lines 226-231: one pass of the append loop.
BlocksChildrenAppend ==
    /\ pc = "append_loop"
    /\ i < Len(remaining)
    /\ calls' = Append(calls, AppendCall(response.id, Chunk(remaining, i), TRUE))
    /\ i' = i + MAX_BLOCKS_PER_REQUEST
    /\ UNCHANGED <<pc, result, score, blocks, children, response, remaining, page,
                   splitVars, langVars, summaryVars, translateVars, extractVars, inlineVars,
                   clientVars, pipelineVars>>

\* The append raises APIResponseError and the loop goes on to the next chunk.
BlocksChildrenAppendErrorSwallowed ==
    /\ pc = "append_loop"
    /\ i < Len(remaining)
    /\ calls' = Append(calls, AppendCall(response.id, Chunk(remaining, i), FALSE))
    /\ i' = i + MAX_BLOCKS_PER_REQUEST
    /\ UNCHANGED <<pc, result, score, blocks, children, response, remaining, page,
                   splitVars, langVars, summaryVars, translateVars, extractVars, inlineVars,
                   clientVars, pipelineVars>>

\* Lines 226-231 and 242-244: the append raises APIResponseError.
BlocksChildrenAppendRaises ==
    /\ pc = "append_loop"
    /\ i < Len(remaining)
    /\ calls' = Append(calls, AppendCall(response.id, Chunk(remaining, i), FALSE))
    /\ pc' = "raised"
    /\ UNCHANGED <<result, score, blocks, children, response, remaining, i, page,
                   splitVars, langVars, summaryVars, translateVars, extractVars, inlineVars,
                   clientVars, pipelineVars>>

\* Lines 233-240: the loop is over and the NotionPage is returned.
ReturnNotionPage ==
    /\ pc = "append_loop"
    /\ i >= Len(remaining)
    /\ page' = [page_id |-> response.id, title |-> result.japanese_title,
                url |-> response.url, created_at |-> Now]
    /\ pc' = "returned"
    /\ UNCHANGED <<result, score, blocks, children, calls, response, remaining, i,
                   splitVars, langVars, summaryVars, translateVars, extractVars, inlineVars,
                   clientVars, pipelineVars>>

-----------------------------------------------------------------------------
(* Specification SpecCreate: create_page on results of 0..MaxCreateParas   *)
(* paragraphs                                                              *)

MaxCreateParas == 200

DigitChars == <<"0", "1", "2", "3", "4", "5", "6", "7", "8", "9">>

\* str(n), n >= 0
RECURSIVE Decimal(_)
Decimal(n) ==
    IF n < 10 THEN <<DigitChars[n + 1]>>
    ELSE Decimal(n \div 10) \o <<DigitChars[(n % 10) + 1]>>

\* A body of n paragraphs, each its own number, so that every block of the
\* rendered sequence differs from the others.
NumberedContent(n) == Join([k \in 1..n |-> Decimal(k)], BlankLine)

Categories == <<<<"A", "I">>, <<"D", "e", "v">>>>
RepeatedCategories == <<<<"D", "e", "v">>, <<"A", "I">>, <<"D", "e", "v">>>>

\* Every body length without summary, categories or score, and the three
\* settings of those with the bodies around the batch limit.
CreateInputs ==
    {<<MkResult(NumberedContent(n), NoneStr, DefaultUrl), NoneInt>> : n \in 0..MaxCreateParas}
    \cup {<<[MkResult(NumberedContent(n), sm, DefaultUrl) EXCEPT !.categories = cats], sc>> :
            n \in {0, MAX_BLOCKS_PER_REQUEST - 9, MAX_BLOCKS_PER_REQUEST - 8},
            sm \in {NoneStr, OverviewHeader \o NL \o <<"x">>},
            cats \in {<<>>, Categories, RepeatedCategories},
            sc \in {NoneInt, SomeInt(0), SomeInt(8)}}

InitCreate ==
    /\ pc = "create_page"
    /\ \E in \in CreateInputs : result = in[1] /\ score = in[2]
    /\ blocks = <<>>
    /\ children = <<>>
    /\ calls = <<>>
    /\ response = None
    /\ remaining = <<>>
    /\ i = 0
    /\ page = None
    /\ SplitIdle /\ LangIdle
    /\ SummaryIdle /\ TranslateIdle /\ ExtractIdle /\ InlineIdle
    /\ ClientIdle /\ PipelineIdle

NextCreate ==
    \/ PagesCreate
    \/ PagesCreateRaises
    \/ BlocksChildrenAppend
    \/ BlocksChildrenAppendRaises
    \/ ReturnNotionPage

SpecCreate == InitCreate /\ [][NextCreate]_vars

\* The children of the calls, in call order.
SentChildren(cs) == Concat([k \in 1..Len(cs) |-> cs[k].children])

AllDistinct(sq) == \A a, b \in 1..Len(sq) : a # b => sq[a] # sq[b]

\* C5: when all calls succeed, the children sent by create_page, in call
\* order (pages.create, then each blocks.children.append), are the rendered
\* block sequence: nothing dropped, duplicated or reordered.  The renderer
\* never returns fewer than five blocks, so the empty sequence is checked on
\* the two slices alone.
C5_BatchesReproduceBlocks ==
    /\ FirstBatch(<<>>) \o Remaining(<<>>) = <<>>
    /\ pc = "returned" =>
          /\ \A k \in 1..Len(calls) : calls[k].ok
          /\ SentChildren(calls) = children
          /\ \E pick \in LanguageChoices(result.japanese_content) :
               children = BuildContentBlocks(result, pick)

\* A sequence of more than 200 blocks, no two of its paragraph blocks equal,
\* went out in three calls.
C5_Witness ==
    /\ pc = "returned"
    /\ Len(children) > 2 * MAX_BLOCKS_PER_REQUEST
    /\ Len(calls) = 3
    /\ AllDistinct(SubSeq(children, 4, Len(children) - 2))

\* C6: exactly one pages.create call is made and it comes before every
\* blocks.children.append call; every call carries at most 100 blocks; every
\* append targets the page id that create call returned and carries at least
\* one block; no append is issued when N <= 100.
C6_CallProtocol ==
    /\ pc # "create_page" => Len(calls) >= 1 /\ calls[1].api = "pages.create"
    /\ \A k \in 1..Len(calls) :
         /\ Len(calls[k].children) <= 100
         /\ k > 1 =>
              /\ calls[k].api = "blocks.children.append"
              /\ calls[1].ok
              /\ calls[k].target = response.id
              /\ Len(calls[k].children) >= 1
    /\ (pc \in {"returned", "raised"} /\ Len(children) <= 100) => Len(calls) = 1

\* A page of more than 100 blocks was created: the create call carried 100
\* blocks and an append to the returned page id followed.
C6_Witness ==
    /\ pc = "returned"
    /\ Len(children) > 100
    /\ Len(calls[1].children) = 100
    /\ Len(calls) >= 2
    /\ calls[2].target = page.page_id

\* The calls the API accepted, in call order.
Delivered(cs) == SelectSeq(cs, LAMBDA c : c.ok)

\* C26: when pages.create or an append fails, create_page raises: no
\* NotionPage is returned and the failed call is the last one issued; the
\* blocks delivered by then are a prefix of the rendered sequence.  A
\* NotionPage is returned only after every block has been sent.
C26_FailureStopsAndDeliversPrefix ==
    /\ \A n \in 1..Len(calls) : ~calls[n].ok => (n = Len(calls) /\ pc = "raised")
    /\ pc = "raised" => (calls # <<>> /\ ~calls[Len(calls)].ok)
    /\ LET sent == SentChildren(Delivered(calls))
       IN  /\ Len(sent) <= Len(children)
           /\ sent = SubSeq(children, 1, Len(sent))
           /\ pc # "returned" => page = None
           /\ pc = "returned" => sent = children

\* The second append of a page of more than 200 blocks failed: the first
\* 200 blocks were delivered, the rest were not, and no page was returned.
C26_Witness ==
    /\ pc = "raised"
    /\ Len(calls) = 3
    /\ Len(SentChildren(Delivered(calls))) = 2 * MAX_BLOCKS_PER_REQUEST
    /\ Len(children) > 2 * MAX_BLOCKS_PER_REQUEST
    /\ page = None

\* C19: the properties sent hold the title, the URL and today's date; Score
\* exactly when a score is given (0 included), with that number; Categories
\* exactly when the list is not empty, one entry per category in order.
C19_PropertiesSetWhenGiven ==
    Len(calls) >= 1 =>
        LET properties == calls[1].properties
        IN  /\ properties.Name = result.japanese_title
            /\ properties.URL = result.original.url
            /\ properties.read_date = Today
            /\ DOMAIN properties \subseteq {"Name", "URL", "read_date", "Categories", "Score"}
            /\ "Score" \in DOMAIN properties <=> score # NoneInt
            /\ score # NoneInt => properties.Score = score[1]
            /\ "Categories" \in DOMAIN properties <=> result.categories # <<>>
            /\ result.categories # <<>> =>
                 /\ Len(properties.Categories) = Len(result.categories)
                 /\ \A n \in 1..Len(result.categories) :
                        properties.Categories[n] = [name |-> result.categories[n]]

\* A page has been created with a score of 0 and a category given twice.
C19_Witness ==
    /\ Len(calls) >= 1
    /\ score = SomeInt(0)
    /\ "Score" \in DOMAIN calls[1].properties
    /\ calls[1].properties.Score = 0
    /\ result.categories = RepeatedCategories
    /\ Len(calls[1].properties.Categories) = 3

-----------------------------------------------------------------------------
(* TranslationService._format_structured_summary and the summary section   *)
(* the renderer makes of its result                                        *)

LearningsHeader == <<EmojiBulb, " ", "U5B66", "U3073", "U30FB", "U65B0", "U898F", "U6027">>
ConnectionsHeader ==
    <<EmojiLink, " ", "U4ED6", "U306E", "U8A18", "U4E8B", "U3068", "U306E", "U95A2", "U9023">>

\* The keys of the summary dict in the order the code tests them, each with
\* the header written for it.
SummaryFields == <<"overview", "learnings", "use_cases", "connections">>
FieldHeader ==
    [overview |-> OverviewHeader, learnings |-> LearningsHeader,
     use_cases |-> UseCasesHeader, connections |-> ConnectionsHeader]

\* sections: one "<header>\n<value>" per key whose value is truthy.
SummarySections(data) ==
    LET Get(f) == IF f \in DOMAIN data THEN data[f] ELSE NoneStr
        present == SelectSeq(SummaryFields, LAMBDA f : Truthy(Get(f)))
    IN  [j \in 1..Len(present) |-> FieldHeader[present[j]] \o NL \o data[present[j]]]

\* "\n\n".join(sections) if sections else ""
FormatStructuredSummary(data) == Join(SummarySections(data), BlankLine)

\* The values a field of the summary takes: empty, one line, two paragraphs
\* and white space only.
FieldValues == {<<>>, <<"a">>, <<"a", "\n", "\n", "b">>, <<" ">>}

SummaryInputs == [overview : FieldValues, learnings : FieldValues,
                  use_cases : FieldValues, connections : FieldValues]

InitSummary ==
    /\ pc = "format_summary"
    /\ summary_data \in SummaryInputs
    /\ summary_str = NoneStr
    /\ SplitIdle /\ LangIdle /\ RenderIdle /\ CreateIdle
    /\ TranslateIdle /\ ExtractIdle /\ InlineIdle
    /\ ClientIdle /\ PipelineIdle

\* _extract_metadata line 203
CallFormatStructuredSummary ==
    /\ pc = "format_summary"
    /\ summary_str' = FormatStructuredSummary(summary_data)
    /\ pc' = "summary_formatted"
    /\ UNCHANGED <<summary_data, splitVars, langVars, renderVars, createVars,
                   translateVars, extractVars, inlineVars,
                   clientVars, pipelineVars>>

\* The summary goes into a TranslationResult (translate_article lines
\* 128-134) of empty body, which _build_content_blocks renders.
RenderSummary ==
    /\ pc = "summary_formatted"
    /\ result' = MkResult(<<>>, summary_str, DefaultUrl)
    /\ blocks' = BuildContentBlocks(MkResult(<<>>, summary_str, DefaultUrl), <<>>)
    /\ pc' = "summary_rendered"
    /\ UNCHANGED <<score, summaryVars, splitVars, langVars, createVars,
                   translateVars, extractVars, inlineVars,
                   clientVars, pipelineVars>>

NextSummary == CallFormatStructuredSummary \/ RenderSummary

SpecSummary == InitSummary /\ [][NextSummary]_vars

\* The blocks between the summary heading and the divider that closes the
\* summary section, in a document of empty body.
SummarySection(bs) == IF Len(bs) > 5 THEN SubSeq(bs, 4, Len(bs) - 4) ELSE <<>>

\* The keys of the non-empty fields, in the fixed order.
NonEmptyFields(data) == SelectSeq(SummaryFields, LAMBDA f : data[f] # <<>>)

FieldEmoji ==
    [overview |-> EmojiBook, learnings |-> EmojiBulb,
     use_cases |-> EmojiTools, connections |-> EmojiLink]

\* C11: the summary section made of a structured summary is one heading
\* block followed by one callout block per non-empty field, in the fixed
\* field order, each callout carrying the emoji of its field; empty fields
\* give no block.
C11_HeadingAndCalloutPerField ==
    pc = "summary_rendered" =>
        LET fields == NonEmptyFields(summary_data)
            section == SummarySection(blocks)
        IN  /\ Len(section) = 2 * Len(fields)
            /\ \A j \in 1..Len(fields) :
                 /\ section[2 * j - 1].type = "heading_3"
                 /\ section[2 * j].type = "callout"
                 /\ section[2 * j].icon = FieldEmoji[fields[j]]

\* C12: when all four fields are empty, the document holds exactly one
\* callout block, the generic one, with the raw summary text cut to the
\* maximum block length.
C12_AllEmptyGivesGenericCallout ==
    (pc = "summary_rendered" /\ NonEmptyFields(summary_data) = <<>>) =>
        LET callouts == SelectSeq(blocks, LAMBDA b : b.type = "callout")
        IN  callouts = <<CalloutBlock(Slice(summary_str, 0, MAX_BLOCK_TEXT_LENGTH), EmojiMemo)>>

-----------------------------------------------------------------------------
(* json.loads and TranslationService._parse_json                           *)

\* A JSON value: a dict is a function of its keys, a str a sequence of
\* characters, a list a sequence of values.
JsonDict(d) == [t |-> "dict", v |-> d]
JsonStr(s) == [t |-> "str", v |-> s]
JsonList(l) == [t |-> "list", v |-> l]
JsonNone == [t |-> "None"]
JSONDecodeError == [t |-> "JSONDecodeError"]

\* d.get(key, default) on the function of a dict
DictGet(d, key, default) == IF key \in DOMAIN d THEN d[key] ELSE default

\* Python truth of a JSON value
JsonTruthy(j) ==
    CASE j.t = "None" -> FALSE
      [] j.t = "dict" -> DOMAIN j.v # {}
      [] OTHER -> j.v # <<>>

\* The documents the metadata step is run on: a full answer, an answer whose
\* title is the article's own, an answer with a flat summary, the empty
\* object and a list.
FullAnswerText ==
    <<"{", "\"", "j", "a", "p", "a", "n", "e", "s", "e", "_", "t", "i",
      "t", "l", "e", "\"", ":", "\"", "J", "\"", ",", "\"", "c", "a", "t",
      "e", "g", "o", "r", "i", "e", "s", "\"", ":", "[", "\"", "A", "I",
      "\"", "]", ",", "\"", "s", "u", "m", "m", "a", "r", "y", "\"", ":",
      "{", "\"", "o", "v", "e", "r", "v", "i", "e", "w", "\"", ":", "\"",
      "a", "\"", ",", "\"", "u", "s", "e", "_", "c", "a", "s", "e", "s",
      "\"", ":", "\"", "b", "\"", ",", "\"", "c", "o", "n", "n", "e", "c",
      "t", "i", "o", "n", "s", "\"", ":", "\"", "\"", "}", "}">>
FullAnswer ==
    JsonDict([japanese_title |-> JsonStr(<<"J">>),
              categories |-> JsonList(<<JsonStr(<<"A", "I">>)>>),
              summary |-> JsonDict([overview |-> JsonStr(<<"a">>),
                                    use_cases |-> JsonStr(<<"b">>),
                                    connections |-> JsonStr(<<>>)])])
SameTitleAnswerText ==
    <<"{", "\"", "j", "a", "p", "a", "n", "e", "s", "e", "_", "t", "i",
      "t", "l", "e", "\"", ":", "\"", "T", "\"", "}">>
SameTitleAnswer == JsonDict([japanese_title |-> JsonStr(<<"T">>)])
FlatSummaryAnswerText ==
    <<"{", "\"", "j", "a", "p", "a", "n", "e", "s", "e", "_", "t", "i",
      "t", "l", "e", "\"", ":", "\"", "J", "\"", ",", "\"", "s", "u", "m",
      "m", "a", "r", "y", "\"", ":", "\"", "s", "\"", "}">>
FlatSummaryAnswer ==
    JsonDict([japanese_title |-> JsonStr(<<"J">>), summary |-> JsonStr(<<"s">>)])
EmptyObjectText == <<"{", "}">>
ListText == <<"[", "1", "]">>

JsonDocuments ==
    {<<FullAnswerText, FullAnswer>>,
     <<SameTitleAnswerText, SameTitleAnswer>>,
     <<FlatSummaryAnswerText, FlatSummaryAnswer>>,
     <<EmptyObjectText, JsonDict(<<>>)>>,
     <<ListText, JsonList(<<1>>)>>}

\* json.loads on the texts _parse_json hands it: the value of a document,
\* JSONDecodeError for any other text.
JsonLoads(t) ==
    IF \E d \in JsonDocuments : d[1] = t
    THEN (CHOOSE d \in JsonDocuments : d[1] = t)[2]
    ELSE JSONDecodeError

JsonFence == <<"U60", "U60", "U60", "j", "s", "o", "n">>

\* Where the pattern ```json\s*\n(.*?)``` matches at 0-based index p: the
\* index after the white space that follows the tag, which must hold a line
\* break, and the index of the fence that closes the group; <<>> when it
\* does not match there.
FencedAt(t, p) ==
    IF ~StartsWith(SliceFrom(t, p), JsonFence) THEN <<>>
    ELSE LET from == p + Len(JsonFence)
             run == LeadingRun(t, from + 1, Whitespace)
             stop == from + run
         IN  IF ~\E q \in (from + 1)..stop : t[q] = "\n" THEN <<>>
             ELSE IF Find(SliceFrom(t, stop), Fence) = -1 THEN <<>>
             ELSE <<stop, stop + Find(SliceFrom(t, stop), Fence)>>

\* m.group(1).strip() of re.search, or NoneStr when the pattern matches
\* nowhere.
FencedJson(t) ==
    IF \A p \in 0..(Len(t) - 1) : FencedAt(t, p) = <<>> THEN NoneStr
    ELSE LET p == CHOOSE c \in 0..(Len(t) - 1) :
                     FencedAt(t, c) # <<>> /\ \A q \in 0..(c - 1) : FencedAt(t, q) = <<>>
         IN  Strip(Slice(t, FencedAt(t, p)[1], FencedAt(t, p)[2]))

\* depth after the characters text[brace_start .. j] (0-based, inclusive)
BraceDepth(t, brace_start, j) ==
    Cardinality({q \in (brace_start + 1)..(j + 1) : t[q] = "{"})
    - Cardinality({q \in (brace_start + 1)..(j + 1) : t[q] = "}"})

\* Lines 245-258: the text from the first "{" to the "}" that closes it.
BracedJson(t) ==
    LET brace_start == Find(t, <<"{">>)
        closes == {j \in brace_start..(Len(t) - 1) :
                      t[j + 1] = "}" /\ BraceDepth(t, brace_start, j) = 0}
    IN  IF brace_start = -1 \/ closes = {} THEN NoneStr
        ELSE LET j == CHOOSE c \in closes : \A d \in closes : c <= d
             IN  Slice(t, brace_start, j + 1)

ParseJson(t) ==
    LET fenced == FencedJson(t)
        braced == BracedJson(t)
    IN  IF fenced # NoneStr /\ JsonLoads(fenced) # JSONDecodeError THEN JsonLoads(fenced)
        ELSE IF braced # NoneStr /\ JsonLoads(braced) # JSONDecodeError
        THEN JsonLoads(braced)
        ELSE JsonNone

-----------------------------------------------------------------------------
(* TranslationService: translate_article, _translate_chunked and           *)
(* _extract_metadata                                                       *)

MAX_CHUNK_SIZE == 15000

\* The for loop of _translate_chunked lines 148-154, from paragraph j on.
RECURSIVE ChunkLoop(_, _, _, _, _)
ChunkLoop(paras, j, current_chunk, current_size, done) ==
    IF j > Len(paras)
    THEN IF current_chunk # <<>> THEN Append(done, Join(current_chunk, BlankLine)) ELSE done
    ELSE IF current_size + Len(paras[j]) > MAX_CHUNK_SIZE /\ current_chunk # <<>>
    THEN ChunkLoop(paras, j + 1, <<paras[j]>>, Len(paras[j]),
                   Append(done, Join(current_chunk, BlankLine)))
    ELSE ChunkLoop(paras, j + 1, Append(current_chunk, paras[j]),
                   current_size + Len(paras[j]), done)

\* chunks of _translate_chunked
TranslateChunks(content) == ChunkLoop(SplitOn(content, BlankLine), 1, <<>>, 0, <<>>)

\* The contents step 1 sends, one per call: the chunks of a long article,
\* the whole content of any other.
Step1Contents(a) ==
    IF Len(a.content) > MAX_CHUNK_SIZE THEN TranslateChunks(a.content) ELSE <<a.content>>

\* The three values _extract_metadata returns when it gives up.
NoMetadata == [japanese_title |-> NoneStr, categories |-> <<>>, summary |-> NoneStr]

\* Lines 195-211 on the output raw of the call.
ExtractMetadataFrom(raw) ==
    LET data == ParseJson(raw) IN
    IF ~JsonTruthy(data) THEN NoMetadata
    ELSE IF data.t # "dict" THEN NoMetadata  \* data.get raises, line 208 catches
    ELSE LET summary_data_ == DictGet(data.v, "summary", JsonDict(<<>>))
         IN  [japanese_title |-> DictGet(data.v, "japanese_title", JsonStr(<<>>)).v,
              categories |->
                  LET cats == DictGet(data.v, "categories", JsonList(<<>>)).v
                  IN  [j \in 1..Len(cats) |-> cats[j].v],
              summary |->
                  IF summary_data_.t = "dict"
                  THEN FormatStructuredSummary(
                           [f \in DOMAIN summary_data_.v |-> summary_data_.v[f].v])
                  ELSE summary_data_.v]

TitleSeparator == <<" ", "|", " ">>

\* The title that is always "<japanese> | <original>".
DisplayTitleAlwaysJoined(japanese_title, title) ==
    japanese_title \o TitleSeparator \o title

\* display_title of lines 123-126
DisplayTitle(japanese_title, title) ==
    IF Truthy(japanese_title) /\ japanese_title # title
    THEN japanese_title \o TitleSeparator \o title
    ELSE title

\* TranslationResult(...) of lines 128-134
TranslationResultOf(a, content, md) ==
    [original |-> a,
     japanese_title |-> DisplayTitle(md.japanese_title, a.title),
     japanese_content |-> content,
     categories |-> md.categories,
     summary |-> md.summary]

TranslateCall(content, output) ==
    [prompt |-> "TRANSLATE_PROMPT", content |-> content, output |-> output]

\* content_preview=article.content[:3000]
MetadataCall(a, output) ==
    [prompt |-> "METADATA_PROMPT", content |-> Slice(a.content, 0, 3000), output |-> output]

-----------------------------------------------------------------------------
(* Specification SpecTranslate: translate_article on short and long        *)
(* articles, with every outcome of the two steps, and the render of the    *)
(* result                                                                  *)

\* A paragraph of n characters c.
ParaOf(c, n) == [j \in 1..n |-> c]

\* The contents: a short one; two paragraphs that do not fit one chunk
\* together; three paragraphs of which two fit one chunk; two paragraphs of
\* half the chunk size each; two paragraphs over the chunk size with an empty
\* paragraph between them.
ArticleContents ==
    {<<"x">>,
     ParaOf("x", MAX_CHUNK_SIZE \div 2) \o BlankLine \o ParaOf("y", MAX_CHUNK_SIZE \div 2),
     ParaOf("x", MAX_CHUNK_SIZE + 1) \o BlankLine \o BlankLine
         \o ParaOf("y", MAX_CHUNK_SIZE + 1),
     ParaOf("x", MAX_CHUNK_SIZE \div 2 + 500) \o BlankLine
         \o ParaOf("y", MAX_CHUNK_SIZE \div 2 + 500),
     ParaOf("x", MAX_CHUNK_SIZE \div 2 - 500) \o BlankLine
         \o ParaOf("y", MAX_CHUNK_SIZE \div 2 - 500) \o BlankLine
         \o ParaOf("z", MAX_CHUNK_SIZE \div 2 - 500)}

Articles == {[url |-> DefaultUrl, title |-> Title, content |-> c] : c \in ArticleContents}

\* What the translation call answers.
TranslationOutputs == {<<"j">>, <<"#", " ", "h", "\n", "\n", "k">>}

\* What the metadata call answers: the documents, bare, fenced and after a
\* line of prose, and answers that are no JSON.
MalformedObject == <<"{", "x", "}">>
MetadataOutputs ==
    {FullAnswerText,
     JsonFence \o NL \o FullAnswerText \o NL \o Fence,
     <<"H", "e", "r", "e", ":", "\n">> \o FlatSummaryAnswerText,
     SameTitleAnswerText,
     JsonFence \o <<" ">> \o SameTitleAnswerText \o Fence,
     EmptyObjectText,
     JsonFence \o NL \o ListText \o NL \o Fence,
     Slice(FullAnswerText, 0, Len(FullAnswerText) - 1),
     MalformedObject \o <<" ">> \o SameTitleAnswerText,
     JsonFence \o NL \o MalformedObject \o NL \o Fence,
     <<"s", "o", "r", "r", "y">>}

InitTranslate ==
    /\ pc = "step1"
    /\ article \in Articles
    /\ translated_content = NoneStr
    /\ claude_calls = <<>>
    /\ metadata = None
    /\ SplitIdle /\ LangIdle /\ RenderIdle /\ CreateIdle
    /\ SummaryIdle /\ ExtractIdle /\ InlineIdle
    /\ ClientIdle /\ PipelineIdle

\* Lines 105-112 and 161-170: one translation call that answers; after the
\* last one the answers are joined.
CallClaudeTranslate ==
    /\ pc = "step1"
    /\ Len(claude_calls) < Len(Step1Contents(article))
    /\ \E output \in TranslationOutputs :
         LET contents == Step1Contents(article)
             made == Append(claude_calls,
                            TranslateCall(contents[Len(claude_calls) + 1], output))
         IN  /\ claude_calls' = made
             /\ IF Len(made) = Len(contents)
                THEN /\ translated_content' =
                            Join([j \in 1..Len(made) |-> made[j].output], BlankLine)
                     /\ pc' = "step2"
                ELSE UNCHANGED <<translated_content, pc>>
    /\ UNCHANGED <<article, metadata, splitVars, langVars, renderVars, createVars,
                   summaryVars, extractVars, inlineVars,
                   clientVars, pipelineVars>>

\* _call_claude raises RuntimeError in step 1 (lines 290, 296, 305, 311):
\* translate_article raises it on.
CallClaudeTranslateRaises ==
    /\ pc = "step1"
    /\ Len(claude_calls) < Len(Step1Contents(article))
    /\ claude_calls' = Append(claude_calls,
           TranslateCall(Step1Contents(article)[Len(claude_calls) + 1], NoneStr))
    /\ pc' = "raised"
    /\ UNCHANGED <<article, translated_content, metadata, splitVars, langVars,
                   renderVars, createVars, summaryVars, extractVars, inlineVars,
                   clientVars, pipelineVars>>

\* Lines 118-139: the metadata call answers, the answer is parsed and the
\* result is built.
ExtractMetadata ==
    /\ pc = "step2"
    /\ \E raw \in MetadataOutputs :
         /\ claude_calls' = Append(claude_calls, MetadataCall(article, raw))
         /\ metadata' = ExtractMetadataFrom(raw)
         /\ result' = TranslationResultOf(article, translated_content,
                                          ExtractMetadataFrom(raw))
    /\ pc' = "translated"
    /\ UNCHANGED <<article, translated_content, score, blocks, splitVars, langVars,
                   createVars, summaryVars, extractVars, inlineVars,
                   clientVars, pipelineVars>>

\* Lines 193-211: the metadata call raises, _extract_metadata catches it.
ExtractMetadataCallRaises ==
    /\ pc = "step2"
    /\ claude_calls' = Append(claude_calls, MetadataCall(article, NoneStr))
    /\ metadata' = NoMetadata
    /\ result' = TranslationResultOf(article, translated_content, NoMetadata)
    /\ pc' = "translated"
    /\ UNCHANGED <<article, translated_content, score, blocks, splitVars, langVars,
                   createVars, summaryVars, extractVars, inlineVars,
                   clientVars, pipelineVars>>

\* The result is rendered (create_page line 202).
RenderTranslation ==
    /\ pc = "translated"
    /\ \E pick \in LanguageChoices(result.japanese_content) :
           blocks' = BuildContentBlocks(result, pick)
    /\ pc' = "rendered"
    /\ UNCHANGED <<result, score, translateVars, splitVars, langVars, createVars,
                   summaryVars, extractVars, inlineVars,
                   clientVars, pipelineVars>>

NextTranslate ==
    \/ CallClaudeTranslate
    \/ CallClaudeTranslateRaises
    \/ ExtractMetadata
    \/ ExtractMetadataCallRaises
    \/ RenderTranslation

SpecTranslate == InitTranslate /\ [][NextTranslate]_vars

\* The last call made.
LastCall == claude_calls[Len(claude_calls)]

\* The metadata call answered a text that is not parsable JSON.
MetadataUnparsable ==
    /\ pc \in {"translated", "rendered"}
    /\ LastCall.output # NoneStr
    /\ ParseJson(LastCall.output) = JsonNone

\* The metadata call failed.
MetadataCallFailed ==
    /\ pc \in {"translated", "rendered"}
    /\ LastCall.output = NoneStr

\* C13: when the metadata answer is malformed JSON, the render does not
\* fail and the document holds a single generic callout block in place of
\* the structured summary.
C13_MalformedJsonGivesGenericCallout ==
    (pc = "rendered" /\ MetadataUnparsable) =>
        LET callouts == SelectSeq(blocks, LAMBDA b : b.type = "callout")
        IN  Len(callouts) = 1 /\ callouts[1].icon = EmojiMemo

\* The answers of the translation calls made, joined by blank lines.
TranslatedBody ==
    LET made == SelectSeq(claude_calls, LAMBDA c : c.prompt = "TRANSLATE_PROMPT")
    IN  Join([j \in 1..Len(made) |-> made[j].output], BlankLine)

\* C20: when the metadata answer is not parsable JSON, or the metadata call
\* fails, translate_article returns a result whose japanese_content is the
\* translated body, whose japanese_title is the article's title, with no
\* categories and no summary; a failure of a body-translation call ends
\* translate_article with RuntimeError and no result.
C20_MetadataFailureKeepsTranslation ==
    /\ (MetadataUnparsable \/ MetadataCallFailed) =>
          /\ result.japanese_content = TranslatedBody
          /\ result.japanese_title = article.title
          /\ result.categories = <<>>
          /\ result.summary = NoneStr
          /\ result.original = article
    /\ (claude_calls # <<>> /\ LastCall.prompt = "TRANSLATE_PROMPT"
            /\ LastCall.output = NoneStr) =>
          pc = "raised" /\ result = None
    /\ pc = "raised" =>
          LastCall.prompt = "TRANSLATE_PROMPT" /\ LastCall.output = NoneStr

\* translate_article returned after a metadata answer that does not parse,
\* for an article translated in two chunks.
C20_Witness ==
    /\ pc = "translated"
    /\ MetadataUnparsable
    /\ Len(claude_calls) = 3
    /\ result.japanese_content = TranslatedBody

\* The translation calls made so far, in call order.
TranslateCalls == SelectSeq(claude_calls, LAMBDA c : c.prompt = "TRANSLATE_PROMPT")

\* C28: an article longer than MAX_CHUNK_SIZE is translated in chunks: the
\* chunks are non-empty runs of consecutive paragraphs, joined by blank lines
\* they are the content; each chunk is sent in one call, in order, and the
\* answers are joined in that order; a chunk of more than one paragraph is
\* not longer than MAX_CHUNK_SIZE.
C28_ChunksPartitionWithinSize ==
    (pc \in {"step2", "translated"} /\ Len(article.content) > MAX_CHUNK_SIZE) =>
        LET sent == [n \in 1..Len(TranslateCalls) |-> TranslateCalls[n].content]
        IN  /\ \A n \in 1..Len(sent) : sent[n] # <<>>
            /\ Join(sent, BlankLine) = article.content
            /\ Concat([n \in 1..Len(sent) |-> SplitOn(sent[n], BlankLine)])
                   = SplitOn(article.content, BlankLine)
            /\ translated_content =
                   Join([n \in 1..Len(TranslateCalls) |-> TranslateCalls[n].output],
                        BlankLine)
            /\ \A n \in 1..Len(sent) :
                   Len(SplitOn(sent[n], BlankLine)) > 1 => Len(sent[n]) <= MAX_CHUNK_SIZE

-----------------------------------------------------------------------------
(* Specification SpecInline: _parse_inline_markdown on texts made of       *)
(* markers and letters                                                     *)

MaxInlineTokens == 4

\* What the texts are made of: a letter, the markers alone, a whole link, a
\* line break.
InlineTokens ==
    {<<"a">>, <<"*">>, <<"*", "*">>, <<"U60">>,
     <<"[", "b", "]", "(", "u", ")">>, <<"[">>, <<")">>, <<"\n">>}

\* Scenario 4 of the specification.
InlineExample ==
    <<"S", "e", "e", " ", "[", "d", "o", "c", "s", "]", "(", "h", "t", "t",
      "p", ":", "/", "/", "x", ")", " ", "f", "o", "r", " ", "*", "*", "b",
      "o", "l", "d", "*", "*", " ", "a", "n", "d", " ", "*", "i", "t", "*",
      " ", "a", "n", "d", " ", "U60", "c", "o", "d", "e", "U60", ".">>

InlineInputs ==
    {Concat(ts) : ts \in SeqsUpTo(InlineTokens, MaxInlineTokens)} \cup {InlineExample}

InitInline ==
    /\ pc = "inline"
    /\ inline_text \in InlineInputs
    /\ inline_parts = <<>>
    /\ SplitIdle /\ LangIdle /\ RenderIdle /\ CreateIdle
    /\ SummaryIdle /\ TranslateIdle /\ ExtractIdle
    /\ ClientIdle /\ PipelineIdle

CallParseInlineMarkdown ==
    /\ pc = "inline"
    /\ inline_parts' = ParseInlineMarkdown(inline_text)
    /\ pc' = "inline_done"
    /\ UNCHANGED <<inline_text, splitVars, langVars, renderVars, createVars,
                   summaryVars, translateVars, extractVars,
                   clientVars, pipelineVars>>

SpecInline == InitInline /\ [][CallParseInlineMarkdown]_vars

\* The styles of a span.
IsLink(o) == o.link # NoneStr
StyleCount(o) ==
    (IF o.bold THEN 1 ELSE 0) + (IF o.italic THEN 1 ELSE 0)
    + (IF o.code THEN 1 ELSE 0) + (IF IsLink(o) THEN 1 ELSE 0)

\* The source text of a span: its content inside the markers of its style.
SpanSource(o) ==
    IF IsLink(o) THEN <<"[">> \o o.content \o <<"]", "(">> \o o.link \o <<")">>
    ELSE IF o.bold THEN <<"*", "*">> \o o.content \o <<"*", "*">>
    ELSE IF o.italic THEN <<"*">> \o o.content \o <<"*">>
    ELSE IF o.code THEN <<"U60">> \o o.content \o <<"U60">>
    ELSE o.content

SpansSource(spans) == Concat([j \in 1..Len(spans) |-> SpanSource(spans[j])])

\* A text that holds a complete link, emphasis or code markup somewhere.
HoldsMarkup(t) ==
    \/ \E a, b \in 1..Len(t) :
          /\ b >= a + 2 /\ t[a] = "*" /\ t[b] = "*"
          /\ \A j \in (a + 1)..(b - 1) : t[j] # "\n"
    \/ \E a, b \in 1..Len(t) :
          /\ b >= a + 2 /\ t[a] = "U60" /\ t[b] = "U60"
          /\ \A j \in (a + 1)..(b - 1) : t[j] # "U60"
    \/ \E a, b, c \in 1..Len(t) :
          /\ t[a] = "[" /\ b >= a + 2 /\ t[b] = "]"
          /\ \A j \in (a + 1)..(b - 1) : t[j] # "]"
          /\ b + 1 <= Len(t) /\ t[b + 1] = "("
          /\ c >= b + 3 /\ t[c] = ")"
          /\ \A j \in (b + 2)..(c - 1) : t[j] # ")"

\* "**" opens a bold markup at index p of t.
BoldStartsAt(t, p) ==
    /\ p + 1 <= Len(t) /\ t[p] = "*" /\ t[p + 1] = "*"
    /\ \E e \in (p + 3)..(Len(t) - 1) :
          /\ t[e] = "*" /\ t[e + 1] = "*"
          /\ \A j \in (p + 2)..(e - 1) : t[j] # "\n"

\* What the example parses to.
InlineExampleSpans ==
    <<PlainTextObj(<<"S", "e", "e", " ">>),
      TextObj(<<"d", "o", "c", "s">>, FALSE, FALSE, FALSE,
              <<"h", "t", "t", "p", ":", "/", "/", "x">>),
      PlainTextObj(<<" ", "f", "o", "r", " ">>),
      TextObj(<<"b", "o", "l", "d">>, TRUE, FALSE, FALSE, NoneStr),
      PlainTextObj(<<" ", "a", "n", "d", " ">>),
      TextObj(<<"i", "t">>, FALSE, TRUE, FALSE, NoneStr),
      PlainTextObj(<<" ", "a", "n", "d", " ">>),
      TextObj(<<"c", "o", "d", "e">>, FALSE, FALSE, TRUE, NoneStr),
      PlainTextObj(<<".">>)>>

\* C14: the spans are in source order and cover the text (putting each
\* span back inside the markers of its style gives the text); a span has at
\* most one style; a plain span is one whole run that holds no markup;
\* where bold and italic both match, the span is bold; the example parses
\* to its nine spans.
C14_InlineSpansInSourceOrder ==
    pc = "inline_done" =>
        /\ SpansSource(inline_parts) = inline_text
        /\ \A j \in 1..Len(inline_parts) :
             /\ StyleCount(inline_parts[j]) <= 1
             /\ StyleCount(inline_parts[j]) = 0 =>
                  /\ ~HoldsMarkup(inline_parts[j].content)
                  /\ inline_parts[j].content # <<>> \/ inline_text = <<>>
                  /\ j > 1 => StyleCount(inline_parts[j - 1]) = 1
             /\ inline_parts[j].italic =>
                  ~BoldStartsAt(inline_text, Len(SpansSource(SubSeq(inline_parts, 1, j - 1))) + 1)
        /\ inline_text = InlineExample => inline_parts = InlineExampleSpans

\* The example has been parsed.
C14_Witness ==
    /\ pc = "inline_done"
    /\ inline_text = InlineExample
    /\ Len(inline_parts) = 9

-----------------------------------------------------------------------------
(* BrowserClient._extract_content and the end of fetch_article             *)

\* DOM nodes: a text node (nodeType 3) and an element (nodeType 1) with the
\* attributes the code reads.
TextNode(t) == [nodeType |-> 3, textContent |-> t]
\* null, where the code holds a node or null.
NoNode == [nodeType |-> 0]
ElementWith(tag, testid, alt, href, childNodes) ==
    [nodeType |-> 1, tagName |-> tag, testid |-> testid, alt |-> alt,
     href |-> href, childNodes |-> childNodes]
Element(tag, childNodes) == ElementWith(tag, "", <<>>, <<>>, childNodes)

\* node.textContent
RECURSIVE TextContent(_)
TextContent(node) ==
    IF node.nodeType = 3 THEN node.textContent
    ELSE Concat([j \in 1..Len(node.childNodes) |-> TextContent(node.childNodes[j])])

\* The element descendants of node in document order.
RECURSIVE Elements(_)
Elements(node) ==
    IF node.nodeType = 3 THEN <<>>
    ELSE Concat([j \in 1..Len(node.childNodes) |->
                    IF node.childNodes[j].nodeType = 3 THEN <<>>
                    ELSE <<node.childNodes[j]>> \o Elements(node.childNodes[j])])

\* node.querySelector(tag), node.querySelector("[data-testid='...']")
FirstOf(es) == IF es = <<>> THEN NoNode ELSE es[1]
QueryTag(node, tag) ==
    FirstOf(SelectSeq(Elements(node), LAMBDA e : e.tagName = tag))
QueryTestId(node, testid) ==
    FirstOf(SelectSeq(Elements(node), LAMBDA e : e.testid = testid))

\* String.prototype.trim
JsWhitespace == Whitespace \cup {"UA0", "UFEFF"}
JsTrim(s) == StripChars(s, JsWhitespace)

\* The first element ARTICLE_CONTAINER_SELECTORS finds; the nodes carry no
\* class and no role, so ".postArticle-content" and "[role='main']" find
\* nothing.
QueryContainer(body) ==
    IF QueryTag(body, "article") # NoNode THEN QueryTag(body, "article")
    ELSE IF QueryTestId(body, "story-content") # NoNode
         THEN QueryTestId(body, "story-content")
    ELSE QueryTag(body, "main")

SkippedTags == {"nav", "footer", "header", "button", "aside", "script",
                "style", "noscript", "iframe", "svg"}
SkippedTestIds == {"headerNav", "postMetaLockup", "storyFooter",
                   "publicationHeader"}
HeadingTags == {"h1", "h2", "h3", "h4"}
RecursedTags == {"div", "section", "main", "article", "span"}

\* '#'.repeat(parseInt(tag[1]))
Hashes(tag) ==
    CASE tag = "h1" -> <<"#">>
      [] tag = "h2" -> <<"#", "#">>
      [] tag = "h3" -> <<"#", "#", "#">>
      [] tag = "h4" -> <<"#", "#", "#", "#">>

\* tag + ':' + text.substring(0, 80): a tag name holds no colon, so the
\* pair stands for the string.
DedupKey(tag, txt) == <<tag, Slice(txt, 0, 80)>>

\* processNode's closure state and lines.push.
NoLines == [js_lines |-> <<>>, seen |-> {}]
Push(st, type, content) ==
    [st EXCEPT !.js_lines = Append(@, [type |-> type, content |-> content])]

\* The blockquote branch: '> ' before every trimmed line.
Quoted(txt) ==
    LET ls == SplitOn(txt, NL)
    IN  Join([j \in 1..Len(ls) |-> <<">", " ">> \o JsTrim(ls[j])], NL)

\* The list branch: one line per :scope > li with text, numbered by the
\* position among the li children.
ListLines(node) ==
    LET items == SelectSeq(node.childNodes,
                           LAMBDA c : c.nodeType = 1 /\ c.tagName = "li")
        Prefix(j) == IF node.tagName = "ol" THEN Decimal(j) \o <<".", " ">>
                     ELSE <<"-", " ">>
    IN  Concat([j \in 1..Len(items) |->
                   IF JsTrim(TextContent(items[j])) # <<>>
                   THEN <<[type |-> "list",
                           content |-> Prefix(j) \o JsTrim(TextContent(items[j]))]>>
                   ELSE <<>>])

\* The image branch.
ImagePrefix ==
    <<"[", "U753B", "U50CF", ":", " ">>
FigureLines(node) ==
    LET img == QueryTag(node, "img")
        caption == QueryTag(node, "figcaption")
        alt == IF img = NoNode THEN <<>> ELSE img.alt
        capText == IF caption = NoNode THEN <<>> ELSE JsTrim(TextContent(caption))
    IN  IF alt # <<>> \/ capText # <<>>
        THEN <<[type |-> "image",
                content |-> ImagePrefix \o (IF capText # <<>> THEN capText ELSE alt)
                            \o <<"]">>]>>
        ELSE <<>>

\* The paragraph branch: the markdown of one child of a p.
InlineMd(c) ==
    IF c.nodeType = 3 THEN c.textContent
    ELSE IF c.tagName = "code" THEN <<"U60">> \o TextContent(c) \o <<"U60">>
    ELSE IF c.tagName \in {"strong", "b"}
         THEN <<"*", "*">> \o TextContent(c) \o <<"*", "*">>
    ELSE IF c.tagName \in {"em", "i"} THEN <<"*">> \o TextContent(c) \o <<"*">>
    ELSE IF c.tagName = "a"
         THEN <<"[">> \o TextContent(c) \o <<"]", "(">> \o c.href \o <<")">>
    ELSE TextContent(c)
ParagraphMd(node) ==
    JsTrim(Concat([j \in 1..Len(node.childNodes) |-> InlineMd(node.childNodes[j])]))

\* The pre branch.
PreLines(node, txt) ==
    LET code == QueryTag(node, "code")
        codeText == IF code = NoNode THEN txt ELSE TextContent(code)
    IN  IF JsTrim(codeText) # <<>>
        THEN <<[type |-> "code",
                content |-> Fence \o NL \o JsTrim(codeText) \o NL \o Fence]>>
        ELSE <<>>

\* processNode line 377: a repeated key is suppressed.
RepeatSuppressed(st, key, txt) == key \in st.seen /\ Len(txt) < 200

\* processNode(node) from the state st of lines and seen.
RECURSIVE ProcessNode(_, _)
ProcessNode(node, st) ==
    IF node.nodeType = 3
    THEN IF JsTrim(node.textContent) # <<>>
         THEN Push(st, "text", JsTrim(node.textContent))
         ELSE st
    ELSE LET tag == node.tagName
             txt == JsTrim(TextContent(node))
             key == DedupKey(tag, txt)
             st1 == [st EXCEPT !.seen = @ \cup {key}]
             More(ls) == [st1 EXCEPT !.js_lines = @ \o ls]
             Each[n \in 0..Len(node.childNodes)] ==
                 IF n = 0 THEN st1 ELSE ProcessNode(node.childNodes[n], Each[n - 1])
         IN  IF tag \in SkippedTags THEN st
             ELSE IF node.testid \in SkippedTestIds THEN st
             ELSE IF RepeatSuppressed(st, key, txt) THEN st
             ELSE IF tag \in HeadingTags /\ Len(txt) > 0
                  THEN Push(st1, "heading", Hashes(tag) \o <<" ">> \o txt)
             ELSE IF tag = "pre" THEN More(PreLines(node, txt))
             ELSE IF tag = "code" THEN st1
             ELSE IF tag = "blockquote"
                  THEN IF txt # <<>> THEN Push(st1, "blockquote", Quoted(txt)) ELSE st1
             ELSE IF tag \in {"ul", "ol"} THEN More(ListLines(node))
             ELSE IF tag = "figure" THEN More(FigureLines(node))
             ELSE IF tag = "p"
                  THEN IF txt # <<>> /\ Len(txt) > 5
                       THEN Push(st1, "paragraph", ParagraphMd(node))
                       ELSE st1
             ELSE IF tag \in RecursedTags THEN Each[Len(node.childNodes)]
             ELSE st1

\* lines.filter(...).map(l => l.content).join('\n\n')
Markdown(ls) ==
    LET kept == SelectSeq(ls, LAMBDA l : JsTrim(l.content) # <<>>)
    IN  Join([j \in 1..Len(kept) |-> kept[j].content], BlankLine)

\* The tree walker of the fallback: the text nodes in document order whose
\* parent is none of the rejected tags.
RejectedParents == {"script", "style", "nav", "footer", "button", "noscript"}
RECURSIVE AcceptedTexts(_)
AcceptedTexts(node) ==
    Concat([j \in 1..Len(node.childNodes) |->
               IF node.childNodes[j].nodeType = 3
               THEN IF node.tagName \in RejectedParents THEN <<>>
                    ELSE <<node.childNodes[j].textContent>>
               ELSE AcceptedTexts(node.childNodes[j])])

FallbackText(body) ==
    LET texts == SelectSeq([j \in 1..Len(AcceptedTexts(body)) |->
                               JsTrim(AcceptedTexts(body)[j])],
                           LAMBDA t : t # <<>> /\ Len(t) > 10)
    IN  Join(texts, BlankLine)

\* String.prototype.toLowerCase on the letters A to Z.
ToLowerCase(s) == [j \in 1..Len(s) |-> LowerChar(s[j])]

\* sub in s
Includes(s, sub) ==
    \E q \in 1..(Len(s) - Len(sub) + 1) :
        s[q] = sub[1] /\ SubSeq(s, q, q + Len(sub) - 1) = sub

PAYWALL_INDICATORS ==
    {
    <<"m", "e", "m", "b", "e", "r", "-", "o", "n", "l", "y", " ", "s", "t",
      "o", "r", "y">>,
    <<"t", "h", "i", "s", " ", "s", "t", "o", "r", "y", " ", "i", "s", " ",
      "f", "o", "r", " ", "m", "e", "m", "b", "e", "r", "s", " ", "o", "n",
      "l", "y">>,
    <<"b", "e", "c", "o", "m", "e", " ", "a", " ", "m", "e", "m", "b", "e",
      "r">>,
    <<"s", "i", "g", "n", " ", "u", "p", " ", "t", "o", " ", "c", "o", "n",
      "t", "i", "n", "u", "e">>,
    <<"s", "u", "b", "s", "c", "r", "i", "b", "e", " ", "t", "o", " ", "r",
      "e", "a", "d">>
    }

\* _check_paywall
CheckPaywall(body) ==
    \E indicator \in PAYWALL_INDICATORS :
        Includes(ToLowerCase(TextContent(body)), indicator)

\* _extract_content with the fallback text returned whole.
ExtractContentFallbackWhole(body, markdown) ==
    IF markdown = <<>>
    THEN IF FallbackText(body) # <<>> /\ Len(FallbackText(body)) > 200
         THEN [content |-> FallbackText(body), is_preview |-> TRUE]
         ELSE [content |-> <<>>, is_preview |-> FALSE]
    ELSE [content |-> markdown, is_preview |-> CheckPaywall(body)]

\* _extract_content after extract_js has returned markdown (lines 494-563).
ExtractContent(body, markdown) ==
    IF markdown = <<>>
    THEN IF FallbackText(body) # <<>> /\ Len(FallbackText(body)) > 200
         THEN [content |-> Slice(FallbackText(body), 0, 15000), is_preview |-> TRUE]
         ELSE [content |-> <<>>, is_preview |-> FALSE]
    ELSE [content |-> markdown, is_preview |-> CheckPaywall(body)]

\* _extract_title and _extract_author: the first selector whose element has
\* text; the nodes carry no class and no rel.
Untitled == <<"U", "n", "t", "i", "t", "l", "e", "d">>
StrippedTextOf(e) == IF e = NoNode THEN <<>> ELSE Strip(TextContent(e))
ExtractTitle(body) ==
    LET article_ == QueryTag(body, "article")
        inArticle == IF article_ = NoNode THEN NoNode ELSE QueryTag(article_, "h1")
        storyTitle == FirstOf(SelectSeq(Elements(body),
                          LAMBDA e : e.tagName = "h1" /\ e.testid = "storyTitle"))
    IN  IF StrippedTextOf(inArticle) # <<>> THEN StrippedTextOf(inArticle)
        ELSE IF StrippedTextOf(storyTitle) # <<>> THEN StrippedTextOf(storyTitle)
        ELSE IF StrippedTextOf(QueryTag(body, "h1")) # <<>>
             THEN StrippedTextOf(QueryTag(body, "h1"))
        ELSE Untitled
ExtractAuthor(body) == StrippedTextOf(QueryTestId(body, "authorName"))

-----------------------------------------------------------------------------
(* Specification SpecExtract: _extract_content and the end of              *)
(* fetch_article on small pages                                            *)

MaxNodes == 2

\* A paragraph of n times the character c.
P(c, n) == Element("p", <<TextNode(ParaOf(c, n))>>)

\* The lengths around the limit of the dedup rule, and a short one.
RepeatLengths == {6, 199, 200, 201}

BecomeAMember ==
    <<"B", "e", "c", "o", "m", "e", " ", "a", " ", "m", "e", "m", "b", "e",
      "r">>

\* The nodes the pages are made of: paragraphs with the same first 80
\* characters, a heading with the text of the short paragraph, a bare text,
\* a paragraph inside a nav, a button, a paragraph too short to extract, a
\* paragraph with a paywall phrase.
PageNodes ==
    {P("a", n) : n \in RepeatLengths}
    \cup {Element("h2", <<TextNode(ParaOf("a", 6))>>),
          TextNode(<<" ">> \o ParaOf("b", 12) \o <<"\n">>),
          Element("nav", <<P("c", 12)>>),
          Element("button", <<TextNode(ParaOf("d", 12))>>),
          P("e", 3),
          Element("p", <<TextNode(BecomeAMember)>>)}

\* A page of every kind of block, with a title and an author.
RichNodes ==
    <<ElementWith("h1", "storyTitle", <<>>, <<>>, <<TextNode(<<" ", "T", " ">>)>>),
      ElementWith("span", "authorName", <<>>, <<>>, <<TextNode(<<"A", "n", "n">>)>>),
      Element("p", <<TextNode(<<"s", "e", "e", " ">>),
                     ElementWith("a", "", <<>>, <<"u">>, <<TextNode(<<"d">>)>>),
                     Element("strong", <<TextNode(<<"b">>)>>),
                     Element("em", <<TextNode(<<"i">>)>>),
                     Element("code", <<TextNode(<<"c">>)>>),
                     Element("u", <<TextNode(<<"u", " ">>)>>)>>),
      Element("pre", <<Element("code", <<TextNode(<<"\n", "x", "=", "1", "\n">>)>>)>>),
      Element("pre", <<TextNode(<<"y", "\n", "z">>)>>),
      Element("blockquote", <<TextNode(<<"q", " ", "\n", " ", "r">>)>>),
      Element("ol", <<Element("li", <<TextNode(<<"o", "n", "e">>)>>),
                      Element("li", <<TextNode(<<" ">>)>>),
                      Element("li", <<TextNode(<<"t", "w", "o">>)>>)>>),
      Element("ul", <<Element("li", <<TextNode(<<"d", "o", "t">>)>>)>>),
      Element("figure", <<ElementWith("img", "", <<"a", "l", "t">>, <<>>, <<>>),
                          Element("figcaption", <<TextNode(<<"c", "a", "p">>)>>)>>),
      Element("figure", <<ElementWith("img", "", <<"a", "l", "t">>, <<>>, <<>>)>>),
      Element("figure", <<ElementWith("img", "", <<>>, <<>>, <<>>)>>),
      Element("div", <<Element("span", <<TextNode(ParaOf("a", 6))>>),
                       Element("span", <<TextNode(ParaOf("a", 6))>>),
                       TextNode(ParaOf("a", 6)), Element("br", <<>>),
                       TextNode(ParaOf("a", 6))>>),
      ElementWith("div", "storyFooter", <<>>, <<>>, <<P("f", 12)>>),
      Element("code", <<TextNode(<<"k">>)>>),
      Element("h3", <<TextNode(<<>>)>>),
      Element("table", <<TextNode(ParaOf("g", 12))>>)>>

\* document.body: the nodes inside a container the selectors find, inside a
\* div they do not find, or inside a main that holds them beside a header.
DocumentBodies ==
    {Element("body", <<Element("article", ns)>>) : ns \in SeqsUpTo(PageNodes, MaxNodes)}
    \cup {Element("body", <<Element("div", ns)>>) : ns \in SeqsUpTo(PageNodes, MaxNodes)}
    \cup {Element("body", <<Element(w, RichNodes)>>) : w \in {"article", "main", "div"}}
    \cup {Element("body", <<ElementWith("section", "story-content", <<>>, <<>>,
                                        <<P("a", 6), P("a", 6)>>)>>)}
    \cup {Element("body", <<Element(w, <<P("a", n)>>)>>) :
             w \in {"article", "div"}, n \in {190, 15000, 15001}}

InitExtract ==
    /\ pc = "extract"
    /\ dom \in DocumentBodies
    /\ container = NoNode
    /\ js_lines = <<>>
    /\ seen = {}
    /\ extracted = None
    /\ fetched = None
    /\ SplitIdle /\ LangIdle /\ RenderIdle /\ CreateIdle
    /\ SummaryIdle /\ TranslateIdle /\ InlineIdle
    /\ ClientIdle /\ PipelineIdle

\* extract_js, lines 338-343: the container.
EvaluateQuerySelector ==
    /\ pc = "extract"
    /\ container' = QueryContainer(dom)
    /\ pc' = "process"
    /\ UNCHANGED <<dom, js_lines, seen, extracted, fetched, splitVars, langVars,
                   renderVars, createVars, summaryVars, translateVars, inlineVars,
                   clientVars, pipelineVars>>

\* extract_js, lines 343-472: processNode(container), or no container.
EvaluateProcessNode ==
    /\ pc = "process"
    /\ LET st == IF container = NoNode THEN NoLines
                 ELSE ProcessNode(container, NoLines)
       IN  /\ js_lines' = st.js_lines
           /\ seen' = st.seen
    /\ pc' = "evaluated"
    /\ UNCHANGED <<dom, container, extracted, fetched, splitVars, langVars,
                   renderVars, createVars, summaryVars, translateVars, inlineVars,
                   clientVars, pipelineVars>>

\* extract_js returns the markdown and _extract_content returns.
ReturnExtractContent ==
    /\ pc = "evaluated"
    /\ extracted' = ExtractContent(dom, Markdown(js_lines))
    /\ pc' = "extracted"
    /\ UNCHANGED <<dom, container, js_lines, seen, fetched, splitVars, langVars,
                   renderVars, createVars, summaryVars, translateVars, inlineVars,
                   clientVars, pipelineVars>>

\* fetch_article, lines 254-258.
FetchArticleRaises ==
    /\ pc = "extracted"
    /\ extracted.content = <<>>
    /\ pc' = "fetch_raised"
    /\ UNCHANGED <<dom, container, js_lines, seen, extracted, fetched, splitVars,
                   langVars, renderVars, createVars, summaryVars, translateVars,
                   inlineVars,
                   clientVars, pipelineVars>>

\* fetch_article, lines 246-273.
FetchArticleReturns ==
    /\ pc = "extracted"
    /\ extracted.content # <<>>
    /\ fetched' = [url |-> DefaultUrl, title |-> ExtractTitle(dom),
                   content |-> extracted.content, author |-> ExtractAuthor(dom),
                   is_preview_only |-> extracted.is_preview]
    /\ pc' = "fetched"
    /\ UNCHANGED <<dom, container, js_lines, seen, extracted, splitVars, langVars,
                   renderVars, createVars, summaryVars, translateVars, inlineVars,
                   clientVars, pipelineVars>>

NextExtract ==
    \/ EvaluateQuerySelector
    \/ EvaluateProcessNode
    \/ ReturnExtractContent
    \/ FetchArticleRaises
    \/ FetchArticleReturns

SpecExtract == InitExtract /\ [][NextExtract]_vars

\* The container holds nothing but paragraphs and headings that are long
\* enough to be extracted, and processNode has run.
IsPlainBlock(c) ==
    /\ c.nodeType = 1
    /\ c.tagName \in {"p", "h2"}
    /\ \A j \in 1..Len(c.childNodes) : c.childNodes[j].nodeType = 3
    /\ Len(JsTrim(TextContent(c))) > 5
DedupCase ==
    /\ pc = "evaluated"
    /\ container # NoNode
    /\ container.tagName = "article"
    /\ \A j \in 1..Len(container.childNodes) : IsPlainBlock(container.childNodes[j])

\* The block of a paragraph or heading, and its (kind, first 80 characters)
\* key.
BlockOf(c) ==
    IF c.tagName = "h2" THEN <<"#", "#", " ">> \o JsTrim(TextContent(c))
    ELSE JsTrim(TextContent(c))
BlockKey(c) == <<c.tagName, SubSeq(JsTrim(TextContent(c)), 1, Min(80, Len(JsTrim(TextContent(c)))))>>

\* The blocks of the children cs when the j-th is dropped exactly if an
\* earlier one has its key and Dropped(its text length) holds.
BlocksKept(cs, Dropped(_)) ==
    Concat([j \in 1..Len(cs) |->
               IF /\ \E n \in 1..(j - 1) : BlockKey(cs[n]) = BlockKey(cs[j])
                  /\ Dropped(Len(JsTrim(TextContent(cs[j]))))
               THEN <<>>
               ELSE <<BlockOf(cs[j])>>])

LineContents == [j \in 1..Len(js_lines) |-> js_lines[j].content]

\* C15: in document order, a block whose key was seen before is dropped if
\* and only if its text has at most 200 characters.
C15_RepeatDroppedUnlessOver200 ==
    DedupCase =>
        LineContents = BlocksKept(container.childNodes, LAMBDA n : n <= 200)

\* C16: when the structural extraction is empty, fetch_article fails if and
\* only if the fallback text is empty too, and otherwise the article content
\* is the fallback text (up to its 15000 character budget).
C16_FetchFailsOnlyOnEmptyFallback ==
    (pc \in {"fetched", "fetch_raised"} /\ Markdown(js_lines) = <<>>) =>
        /\ pc = "fetch_raised" <=> FallbackText(dom) = <<>>
        /\ pc = "fetched" =>
             fetched.content = SubSeq(FallbackText(dom), 1, Min(15000, Len(FallbackText(dom))))

\* C17: content that comes from the fallback (the structural markdown is
\* empty) has at most 15000 characters, starts the fallback text and is
\* flagged preview, whatever the paywall check says; content that comes
\* from the structural extraction is the whole markdown.
C17_FallbackTruncatedAndPreview ==
    pc = "extracted" =>
        IF Markdown(js_lines) = <<>>
        THEN extracted.content # <<>> =>
                 /\ Len(extracted.content) <= 15000
                 /\ extracted.content = SubSeq(FallbackText(dom), 1, Len(extracted.content))
                 /\ Len(extracted.content) = 15000 \/ extracted.content = FallbackText(dom)
                 /\ extracted.is_preview = TRUE
        ELSE extracted.content = Markdown(js_lines)

\* A fallback text over the budget has been cut on a page without any
\* paywall phrase.
C17_Witness ==
    /\ pc = "extracted"
    /\ Markdown(js_lines) = <<>>
    /\ Len(FallbackText(dom)) > 15000
    /\ Len(extracted.content) = 15000
    /\ extracted.is_preview
    /\ ~CheckPaywall(dom)

-----------------------------------------------------------------------------
(* The extractor's headings in the renderer                                *)

\* parseInt(tag[1])
HeadingLevel(tag) == Len(Hashes(tag))

\* Whether the content is the one heading line the extractor writes for tag.
IsExtractedHeading(content, tag) ==
    /\ StartsWith(content, Hashes(tag) \o <<" ">>)
    /\ LET txt == SliceFrom(content, HeadingLevel(tag) + 1)
       IN  txt # <<>> /\ txt = Strip(txt) /\ Find(txt, BlankLine) = -1

\* C29: a heading as the extractor writes it, one to four '#', a space and
\* the text, is rendered as one heading block of its level, 3 for a level-4
\* heading, whose text is the heading text without the marker.
C29_ExtractedHeadingIsHeadingBlock ==
    pc = "render_done" =>
        \A tag \in HeadingTags :
            IsExtractedHeading(result.japanese_content, tag) =>
                BodyBlocks(blocks) =
                    <<HeadingBlock(SliceFrom(result.japanese_content, HeadingLevel(tag) + 1),
                                   Min(HeadingLevel(tag), 3))>>

-----------------------------------------------------------------------------
(* BrowserClient: initialize, ensure_login, fetch_article,                 *)
(* fetch_reading_list and close                                            *)

\* One entry of history: the call and how it ended ("returned", "True",
\* "False", or the exception raised: "RuntimeError", or "Error" for an
\* exception of Playwright).
Ended(op, outcome) == [op |-> op, outcome |-> outcome]

Goto(target) == [page |-> _page, to |-> target]

\* initialize (lines 50-88): the launch, new_context and new_page assign the
\* three fields in this order; each of them can raise, which leaves the
\* fields assigned before it.
InitializeCall ==
    /\ \E stage \in {"launch", "new_context", "new_page", "done"} :
         IF stage = "launch"
         THEN /\ history' = Append(history, Ended("initialize", "Error"))
              /\ UNCHANGED <<_browser, _context, _page, launched, open_browsers>>
         ELSE /\ launched' = launched + 1
              /\ open_browsers' = open_browsers \cup {launched + 1}
              /\ _browser' = launched + 1
              /\ _context' = IF stage = "new_context" THEN _context ELSE launched + 1
              /\ _page' = IF stage = "done" THEN launched + 1 ELSE _page
              /\ history' = Append(history,
                     Ended("initialize", IF stage = "done" THEN "returned" ELSE "Error"))
    /\ UNCHANGED <<session_exists, headless, navigations>>

\* _save_session (lines 576-585): nothing without a context; a failure to
\* write is caught.
SessionAfterSave(written) == session_exists \/ (written /\ _context # Unset)

\* ensure_login (lines 90-145)
EnsureLoginCall ==
    /\ IF _page = Unset
       THEN /\ history' = Append(history, Ended("ensure_login", "RuntimeError"))
            /\ UNCHANGED <<navigations, session_exists>>
       ELSE IF headless
       THEN /\ history' = Append(history, Ended("ensure_login", "False"))
            /\ UNCHANGED <<navigations, session_exists>>
       ELSE \E way \in {"top_timeout", "logged_in", "signin_raises", "signed_in",
                        "signin_timeout"}, written \in BOOLEAN :
              /\ navigations' =
                    IF way \in {"top_timeout", "logged_in"}
                    THEN Append(navigations, Goto("medium.com"))
                    ELSE navigations \o <<Goto("medium.com"), Goto("medium.com/m/signin")>>
              /\ session_exists' =
                    IF way \in {"logged_in", "signed_in"}
                    THEN SessionAfterSave(written) ELSE session_exists
              /\ history' = Append(history, Ended("ensure_login",
                    CASE way \in {"logged_in", "signed_in"} -> "True"
                      [] way \in {"top_timeout", "signin_timeout"} -> "False"
                      [] OTHER -> "Error"))
    /\ UNCHANGED <<_browser, _context, _page, launched, open_browsers, headless>>

\* fetch_article (lines 147-163 and on): the two checks, then the goto; what
\* follows returns the article or raises.
FetchArticleCall ==
    /\ IF _page = Unset \/ ~session_exists
       THEN /\ history' = Append(history, Ended("fetch_article", "RuntimeError"))
            /\ UNCHANGED navigations
       ELSE /\ navigations' = Append(navigations, Goto("article"))
            /\ \E outcome \in {"returned", "RuntimeError", "Error"} :
                 history' = Append(history, Ended("fetch_article", outcome))
    /\ UNCHANGED <<_browser, _context, _page, launched, open_browsers,
                   session_exists, headless>>

\* fetch_reading_list (lines 587-603 and on)
FetchReadingListCall ==
    /\ IF _page = Unset \/ ~session_exists
       THEN /\ history' = Append(history, Ended("fetch_reading_list", "RuntimeError"))
            /\ UNCHANGED navigations
       ELSE /\ navigations' = Append(navigations, Goto("list"))
            /\ \E outcome \in {"returned", "RuntimeError", "Error"} :
                 history' = Append(history, Ended("fetch_reading_list", outcome))
    /\ UNCHANGED <<_browser, _context, _page, launched, open_browsers,
                   session_exists, headless>>

\* close that closes the browser and keeps the context and the page.
CloseCallKeepsPage ==
    /\ IF _browser # Unset
       THEN /\ open_browsers' = open_browsers \ {_browser}
            /\ _browser' = Unset
       ELSE UNCHANGED <<_browser, open_browsers>>
    /\ history' = Append(history, Ended("close", "returned"))
    /\ UNCHANGED <<_context, _page, launched, session_exists, headless, navigations>>

\* close (lines 878-884)
CloseCall ==
    /\ IF _browser # Unset
       THEN /\ open_browsers' = open_browsers \ {_browser}
            /\ _browser' = Unset
            /\ _context' = Unset
            /\ _page' = Unset
       ELSE UNCHANGED <<_browser, _context, _page, open_browsers>>
    /\ history' = Append(history, Ended("close", "returned"))
    /\ UNCHANGED <<launched, session_exists, headless, navigations>>

-----------------------------------------------------------------------------
(* Specification SpecClient: every sequence of up to MaxCalls calls on a   *)
(* BrowserClient                                                           *)

MaxCalls == 4

otherVars == <<splitVars, langVars, renderVars, createVars, summaryVars,
               translateVars, extractVars, inlineVars, pipelineVars>>

InitClient ==
    /\ pc = "client"
    /\ _browser = Unset /\ _context = Unset /\ _page = Unset
    /\ launched = 0
    /\ open_browsers = {}
    /\ session_exists \in BOOLEAN
    /\ headless \in BOOLEAN
    /\ navigations = <<>>
    /\ history = <<>>
    /\ SplitIdle /\ LangIdle /\ RenderIdle /\ CreateIdle
    /\ SummaryIdle /\ TranslateIdle /\ ExtractIdle /\ InlineIdle
    /\ PipelineIdle

Initialize ==
    /\ pc = "client" /\ Len(history) < MaxCalls
    /\ InitializeCall
    /\ UNCHANGED <<pc, otherVars>>

EnsureLogin ==
    /\ pc = "client" /\ Len(history) < MaxCalls
    /\ EnsureLoginCall
    /\ UNCHANGED <<pc, otherVars>>

FetchArticle ==
    /\ pc = "client" /\ Len(history) < MaxCalls
    /\ FetchArticleCall
    /\ UNCHANGED <<pc, otherVars>>

FetchReadingList ==
    /\ pc = "client" /\ Len(history) < MaxCalls
    /\ FetchReadingListCall
    /\ UNCHANGED <<pc, otherVars>>

Close ==
    /\ pc = "client" /\ Len(history) < MaxCalls
    /\ CloseCall
    /\ UNCHANGED <<pc, otherVars>>

NextClient ==
    \/ Initialize
    \/ EnsureLogin
    \/ FetchArticle
    \/ FetchReadingList
    \/ Close

SpecClient == InitClient /\ [][NextClient]_vars

\* C30: whatever calls came before, fetch_article, ensure_login and
\* fetch_reading_list raise RuntimeError without navigating when no page is
\* open, and so do fetch_article and fetch_reading_list when the session
\* file does not exist; close leaves the browser, the context and the page
\* unset, and changes nothing when there is no browser.
C30_GuardsRaiseAndCloseUnsets ==
    [][LET made == Last(history')
       IN  /\ (made.op \in {"fetch_article", "ensure_login", "fetch_reading_list"}
                 /\ _page = Unset) =>
                 (made.outcome = "RuntimeError" /\ navigations' = navigations)
           /\ (made.op \in {"fetch_article", "fetch_reading_list"} /\ ~session_exists) =>
                 (made.outcome = "RuntimeError" /\ navigations' = navigations)
           /\ made.op = "close" =>
                 /\ _browser' = Unset /\ _context' = Unset /\ _page' = Unset
                 /\ _browser = Unset =>
                      UNCHANGED <<_context, _page, launched, open_browsers,
                                  session_exists, headless, navigations>>]_vars

\* A browser was opened and closed, close was called again, and the
\* fetch_article that followed raised RuntimeError without navigating, the
\* session file being there.
C30_Witness ==
    /\ history = <<Ended("initialize", "returned"), Ended("close", "returned"),
                   Ended("close", "returned"), Ended("fetch_article", "RuntimeError")>>
    /\ session_exists
    /\ navigations = <<>>
    /\ _browser = Unset /\ _context = Unset /\ _page = Unset

-----------------------------------------------------------------------------
(* cli._translate: the translate pipeline                                  *)

\* The entry _append_to_index writes for the article of the run.
IndexEntry == [title |-> <<"T">>, url |-> DefaultUrl]
OtherEntry == [title |-> <<"O">>, url |-> <<"u", "0">>]

\* Lines 109-134: the configuration, the Claude Code check and the Notion
\* access check; each of them ends the run with sys.exit(1) when it fails.
Preflight ==
    /\ pc = "preflight"
    /\ \E outcome \in {"returned", "SystemExit"} :
         /\ history' = Append(history, Ended("preflight", outcome))
         /\ pc' = IF outcome = "returned" THEN "initialize" ELSE "exit"
    /\ UNCHANGED <<_browser, _context, _page, launched, open_browsers, session_exists,
                   headless, navigations, pipelineVars, splitVars, langVars,
                   renderVars, createVars, summaryVars, translateVars, extractVars,
                   inlineVars>>

\* Line 139: browser.initialize() inside the try.  No except clause catches
\* an exception of Playwright: the finally clause holds it.
PipelineInitialize ==
    /\ pc = "initialize"
    /\ InitializeCall
    /\ pc' = IF Last(history').outcome = "returned" THEN "fetch_article" ELSE "finally"
    /\ pending' = IF Last(history').outcome = "returned" THEN pending
                  ELSE Last(history').outcome
    /\ UNCHANGED <<index_file, splitVars, langVars, renderVars, createVars,
                   summaryVars, translateVars, extractVars, inlineVars>>

\* Lines 140-143: browser.fetch_article(url); a RuntimeError is caught and
\* answered with sys.exit(1), which the finally clause holds as SystemExit.
PipelineFetchArticle ==
    /\ pc = "fetch_article"
    /\ FetchArticleCall
    /\ pc' = "finally"
    /\ pending' = CASE Last(history').outcome = "returned" -> None
                    [] Last(history').outcome = "RuntimeError" -> "SystemExit"
                    [] OTHER -> Last(history').outcome
    /\ UNCHANGED <<index_file, splitVars, langVars, renderVars, createVars,
                   summaryVars, translateVars, extractVars, inlineVars>>

\* The finally clause when browser.close() is called on the way without
\* exception only.
PipelineCloseUnlessPending ==
    /\ pc = "finally"
    /\ IF pending = None THEN CloseCall ELSE UNCHANGED clientVars
    /\ pc' = CASE pending = None -> "translate"
               [] pending = "SystemExit" -> "exit"
               [] OTHER -> "propagated"
    /\ UNCHANGED <<pipelineVars, splitVars, langVars, renderVars, createVars,
                   summaryVars, translateVars, extractVars, inlineVars>>

\* Lines 144-145: the finally clause calls browser.close(); the exception
\* held, if any, goes on.
PipelineClose ==
    /\ pc = "finally"
    /\ CloseCall
    /\ pc' = CASE pending = None -> "translate"
               [] pending = "SystemExit" -> "exit"
               [] OTHER -> "propagated"
    /\ UNCHANGED <<pipelineVars, splitVars, langVars, renderVars, createVars,
                   summaryVars, translateVars, extractVars, inlineVars>>

\* Lines 152-157: the index is read and translate_article is called; the
\* RuntimeError it may raise is not caught.
PipelineTranslateArticle ==
    /\ pc = "translate"
    /\ \E outcome \in {"returned", "RuntimeError"} :
         /\ history' = Append(history, Ended("translate_article", outcome))
         /\ pc' = IF outcome = "returned" THEN "create_page" ELSE "propagated"
    /\ UNCHANGED <<_browser, _context, _page, launched, open_browsers, session_exists,
                   headless, navigations, pipelineVars, splitVars, langVars,
                   renderVars, createVars, summaryVars, translateVars, extractVars,
                   inlineVars>>

\* Line 160: notion.create_page; the RuntimeError it may raise is not
\* caught.
PipelineCreatePage ==
    /\ pc = "create_page"
    /\ \E outcome \in {"returned", "RuntimeError"} :
         /\ history' = Append(history, Ended("create_page", outcome))
         /\ pc' = IF outcome = "returned" THEN "append_to_index" ELSE "propagated"
    /\ UNCHANGED <<_browser, _context, _page, launched, open_browsers, session_exists,
                   headless, navigations, pipelineVars, splitVars, langVars,
                   renderVars, createVars, summaryVars, translateVars, extractVars,
                   inlineVars>>

\* Lines 163 and 197-212: _append_to_index writes the file unless the URL is
\* in it already.
AppendToIndex ==
    /\ pc = "append_to_index"
    /\ index_file' =
          IF \E n \in 1..Len(index_file) : index_file[n].url = IndexEntry.url
          THEN index_file
          ELSE Append(index_file, IndexEntry)
    /\ history' = Append(history, Ended("_append_to_index", "returned"))
    /\ pc' = "done"
    /\ UNCHANGED <<_browser, _context, _page, launched, open_browsers, session_exists,
                   headless, navigations, pending, splitVars, langVars,
                   renderVars, createVars, summaryVars, translateVars, extractVars,
                   inlineVars>>

-----------------------------------------------------------------------------
(* Specification SpecPipeline: one run of _translate, with every outcome   *)
(* of its steps                                                            *)

InitPipeline ==
    /\ pc = "preflight"
    /\ _browser = Unset /\ _context = Unset /\ _page = Unset
    /\ launched = 0
    /\ open_browsers = {}
    /\ session_exists \in BOOLEAN
    /\ headless \in BOOLEAN
    /\ navigations = <<>>
    /\ history = <<>>
    /\ pending = None
    /\ index_file \in {<<>>, <<OtherEntry>>, <<IndexEntry>>, <<OtherEntry, IndexEntry>>}
    /\ SplitIdle /\ LangIdle /\ RenderIdle /\ CreateIdle
    /\ SummaryIdle /\ TranslateIdle /\ ExtractIdle /\ InlineIdle

NextPipeline ==
    \/ Preflight
    \/ PipelineInitialize
    \/ PipelineFetchArticle
    \/ PipelineClose
    \/ PipelineTranslateArticle
    \/ PipelineCreatePage
    \/ AppendToIndex

SpecPipeline == InitPipeline /\ [][NextPipeline]_vars

\* The positions of the calls of op in the history.
CallsOf(h, op) == {n \in 1..Len(h) : h[n].op = op}

\* Whether every call of op in h comes after a call of before that returned.
OnlyAfterReturned(h, op, before) ==
    \A n \in CallsOf(h, op) :
        \E m \in 1..(n - 1) : h[m] = Ended(before, "returned")

\* C27: the steps of the pipeline run in the order fetch, translate,
\* create_page, index append, each at most once and only after the one
\* before has returned; a failed fetch_article is followed by neither a
\* translation nor a create_page; the index file changes only after
\* create_page has returned; and once initialize was attempted, close has
\* been called and no browser is open when the translation starts or the run
\* ends.
C27_StepsInOrderAndBrowserClosed ==
    [][/\ \A op \in {"fetch_article", "translate_article", "create_page",
                     "_append_to_index"} : Cardinality(CallsOf(history', op)) <= 1
       /\ OnlyAfterReturned(history', "translate_article", "fetch_article")
       /\ OnlyAfterReturned(history', "create_page", "translate_article")
       /\ OnlyAfterReturned(history', "_append_to_index", "create_page")
       /\ (\E n \in CallsOf(history', "fetch_article") : history'[n].outcome # "returned") =>
             (CallsOf(history', "translate_article") = {}
                /\ CallsOf(history', "create_page") = {})
       /\ index_file' # index_file =>
             \E n \in 1..Len(history) : history[n] = Ended("create_page", "returned")
       /\ (CallsOf(history', "initialize") # {}
             /\ (CallsOf(history', "translate_article") # {}
                   \/ pc' \in {"translate", "exit", "propagated", "done"})) =>
             /\ open_browsers' = {}
             /\ _browser' = Unset /\ _context' = Unset /\ _page' = Unset
             /\ \E c \in CallsOf(history', "close") :
                  /\ \A n \in CallsOf(history', "initialize") : n < c
                  /\ \A n \in CallsOf(history', "translate_article") : c < n]_vars

\* A run that went through: the article was fetched, the browser closed,
\* the translation and the page made, and the index file got its entry.
C27_Witness ==
    /\ pc = "done"
    /\ [n \in 1..Len(history) |-> history[n].op] =
          <<"preflight", "initialize", "fetch_article", "close", "translate_article",
            "create_page", "_append_to_index">>
    /\ index_file = <<OtherEntry, IndexEntry>>
    /\ open_browsers = {}

====
